---------------------------- MODULE Spec2Model ----------------------------
(***************************************************************************)
(* The planner-guided scraping loop (mcp_guided_scraping), the planner's   *)
(* context (MCPPlanner) and the page extraction (extract_content,          *)
(* extract_with_function_call) of minion_agent.browser.                    *)
(*                                                                         *)
(* The reasoning oracle, the browser and the search engine are the         *)
(* environment: each call on them answers nondeterministically with one of *)
(* the replies the code distinguishes, or raises.                          *)
(***************************************************************************)
EXTENDS Integers, Sequences, FiniteSets, TLC

\* Python's None, and a key that is missing from a dict (dict.get gives None).
NONE == "<none>"

\* A JSON null stored under a key that is present.
NULL == "<null>"

Truthy(s) == s \notin {NONE, NULL, ""}

(***************************************************************************)
(* Text of an oracle reply: a JSON payload, optionally wrapped in a        *)
(* markdown code fence.  open is what stands in front of the payload: the  *)
(* three-backtick fence tagged json (FenceJson), the untagged three-       *)
(* backtick fence (Fence) or nothing; close is what stands behind it: the  *)
(* fence or nothing.                                                       *)
(***************************************************************************)
FenceJson == "[fence]json"
Fence == "[fence]"
FenceOpen == {"", FenceJson, Fence}
FenceClose == {"", Fence}

\* if s.startswith(FenceJson): s = s[7:]
\* if s.endswith(Fence): s = s[:-3]
StripFences(text) ==
    [text EXCEPT !.open = IF text.open = FenceJson THEN "" ELSE text.open,
                 !.close = ""]

\* json.loads: a JSONDecodeError unless the text is the bare, well-formed payload.
JsonDecodeError(text) ==
    \/ text.open # ""
    \/ text.close # ""
    \/ text.payload.kind = "malformed"

\* re.search(FenceJson \s* (.*?) \s* Fence, text): the payload between the two fences.
FencedJsonMatch(text) == text.open = FenceJson /\ text.close = Fence

Unfenced(text) == [text EXCEPT !.open = "", !.close = ""]

(***************************************************************************)
(* Extraction records.  A JSON payload of the extraction oracle is an      *)
(* object with any subset of the five fields, or some other JSON value.    *)
(* key_points is a record so that a list, a null and a missing key can be  *)
(* told apart.                                                             *)
(***************************************************************************)
KPAbsent == [type |-> "absent", len |-> 0]
KPNull == [type |-> "null", len |-> 0]
KPList(n) == [type |-> "list", len |-> n]

\* relevance_score is -1 while the key is missing.
\* The fallback record of extract_with_function_call and of the orchestrator.
DefaultExtraction ==
    [type |-> "dict", action |-> "next_url", summary |-> "",
     key_points |-> KPList(0), context |-> "", output |-> "",
     relevance_score |-> -1]

\* The record returned when the oracle call itself raised.
ErrorExtraction == [DefaultExtraction EXCEPT !.output = "Error: e"]

\* "action" in value: key membership for a dict, element membership for a list.
HasAction(payload) ==
    CASE payload.kind = "object" -> payload.action # NONE
      [] payload.kind = "array_with_action" -> TRUE
      [] OTHER -> FALSE

\* The Python value json.loads gives for a well-formed payload.
Loaded(payload) ==
    [type |-> IF payload.kind = "object" THEN "dict" ELSE "list",
     action |-> payload.action, summary |-> payload.summary,
     key_points |-> payload.key_points, context |-> payload.context,
     output |-> payload.output, relevance_score |-> -1]

\* extraction_result = json.loads(s); logger.info(extraction_result.get('action'));
\* return extraction_result -- inside try/except Exception: a decode error and the
\* AttributeError of .get on a non-dict both end in the fallback record.
LoadsAndLog(text) ==
    IF JsonDecodeError(text) \/ text.payload.kind # "object"
    THEN DefaultExtraction
    ELSE Loaded(text.payload)

\* extraction_result = json.loads(s); if "action" in extraction_result: return it.
\* A number raises TypeError on the membership test (caught by except Exception: fallback); a
\* JSONDecodeError is passed over.  found says whether a value was returned.
LoadsIfAction(text) ==
    IF ~JsonDecodeError(text) /\ text.payload.kind # "number" /\ HasAction(text.payload)
    THEN [found |-> TRUE, value |-> Loaded(text.payload)]
    ELSE [found |-> FALSE, value |-> DefaultExtraction]

\* The regex branch, then the direct-JSON branch, of the content and str methods.
ParseTextReply(text) ==
    IF FencedJsonMatch(text)
    THEN LoadsAndLog(Unfenced(text))
    ELSE LoadsIfAction(text).value

extract_with_function_call(response) ==
    CASE response.shape = "raise" -> ErrorExtraction
      [] response.shape = "dict" ->
            IF response.text.payload.kind = "object" /\ HasAction(response.text.payload)
            THEN Loaded(response.text.payload)
            ELSE DefaultExtraction
      [] response.shape = "function_call" ->
            LoadsAndLog(StripFences(response.text))
      [] response.shape = "content" -> ParseTextReply(response.text)
      [] response.shape = "additional_kwargs" -> LoadsAndLog(response.text)
      [] response.shape = "str" -> ParseTextReply(response.text)
      [] OTHER -> DefaultExtraction

\* relevance_score in tenths: 1.0 for a final record; min(0.9, 0.3 + 0.1 * len(key_points))
\* for a summary with more than two key points; 0.3 for a summary; 0 otherwise.
Min(a, b) == IF a < b THEN a ELSE b

\* extraction_result.get(...) on a value that is no dict, and len() of a key_points
\* that is null, raise (AttributeError, TypeError): nothing in the function catches.
ProcessRaises(result) ==
    \/ result.type # "dict"
    \/ /\ result.action # "final"
       /\ Truthy(result.summary)
       /\ result.key_points.type = "null"

RelevanceScore(result) ==
    CASE result.action = "final" -> 10
      [] Truthy(result.summary) /\ result.key_points.len > 2 ->
            Min(9, 3 + result.key_points.len)
      [] Truthy(result.summary) -> 3
      [] OTHER -> 0

\* [raised, value]: the call raised, or returned value.
Raised == [raised |-> TRUE, value |-> DefaultExtraction]
Returned(v) == [raised |-> FALSE, value |-> v]

process_extracted_content(response) ==
    LET result == extract_with_function_call(response)
    IN  IF ProcessRaises(result)
        THEN Raised
        ELSE Returned([result EXCEPT !.relevance_score = RelevanceScore(result)])

\* page: what the browser and the network answer while the page is read.
\*   title_ok    page.title() returns
\*   is_pdf      the URL or the content type names a PDF
\*   fetch_ok    requests.get and PdfReader succeed (PDF branch)
\*   content_ok  page.content() returns (HTML branch)
Pages == [title_ok : BOOLEAN, is_pdf : BOOLEAN, fetch_ok : BOOLEAN, content_ok : BOOLEAN]

extract_content(page, response) ==
    IF ~page.title_ok THEN Raised
    ELSE IF page.is_pdf
         THEN IF page.fetch_ok THEN process_extracted_content(response) ELSE Raised
         ELSE IF page.content_ok THEN process_extracted_content(response) ELSE Raised

(***************************************************************************)
(* The web as the search engine shows it.  search_google answers with one  *)
(* ordered page of results; a later search can answer with a page that     *)
(* overlaps the first.                                                     *)
(***************************************************************************)
PageA == << "r1" >>
PageB == << "r2", "r1" >>

\* What search_google can return, and what search_next_page can return.
SearchPages == {<< >>, PageA, PageB}
NextPages == {<< >>, PageB}

\* A URL the oracle can name by itself, and the placeholder it is told not to use.
OracleURL == "u1"
Placeholder == "http://example.com/x"

\* "example.com" in url
IsPlaceholder(url) == url \in {Placeholder}

user_prompt == "goal"

RANGE(seq) == {seq[i] : i \in DOMAIN seq}

\* Entries of context["search_results"]: a {title, url} record, or a whole page that
\* was appended as one element.
Flat(u) == [nested |-> FALSE, url |-> u, inner |-> << >>]
Nested(page) == [nested |-> TRUE, url |-> NONE, inner |-> page]
FlatPage(page) == [i \in DOMAIN page |-> Flat(page[i])]

VARIABLES
    pc,                  \* where mcp_guided_scraping stands
    visited_urls,        \* context["visited_urls"]
    extracted_content,   \* context["extracted_content"]
    search_queries,      \* context["search_queries"]
    final_answers,       \* context["final_answers"]
    search_results,      \* context["search_results"]: [present, items]
    interactive_actions, \* context["interactive_actions"], NONE while the key is missing
    state,               \* mcp_planner.state
    current_url,         \* the local current_url of mcp_guided_scraping
    result,              \* the returned string, NONE before the return
    decision,            \* what decide_next_action gave in the latest iteration
    calls,               \* the external calls of the latest iteration, in order
    extraction,          \* one call of the page extraction: its inputs and its outcome
    scraper,             \* one run of ai_web_scraper without a planner
    interaction,         \* one call of perform_page_interactions
    search,              \* one call of search_google: its inputs and its outcome
    legacy,              \* one run of the ai_web_scraper of src/services and test.py
    browse,              \* one run of browse_and_extract (try_cheena.py)
    checkbox,            \* one checkbox or radio button and the calls made on it
    selector             \* one call of ElementSelector.select_best_element

vars == << pc, visited_urls, extracted_content, search_queries, final_answers,
           search_results, interactive_actions, state, current_url, result,
           decision, calls, extraction, scraper, interaction, search, legacy, browse,
           checkbox, selector >>

\* The variables of the planner-guided loop, and those of the components that are
\* looked at by themselves.
planner_vars == << pc, visited_urls, extracted_content, search_queries, final_answers,
                   search_results, interactive_actions, state, current_url, result,
                   decision, calls >>

units == << extraction, scraper, interaction, search, legacy, browse, checkbox, selector >>

context == << visited_urls, extracted_content, search_queries, final_answers,
              search_results, interactive_actions >>

\* context.get("search_results", [])
StoredResults == IF search_results.present THEN search_results.items ELSE << >>

(***************************************************************************)
(* MCPPlanner                                                              *)
(***************************************************************************)
\* self.max_visited_urls = 15 in the source.  The loop is checked with a smaller
\* cap, so that the cap is reached and passed within the explored runs.
max_visited_urls == 2

add_visited_url_without_check(urls, url) == Append(urls, url)

add_visited_url_never(urls, url) == urls

add_visited_url_in_front(urls, url) ==
    IF url \in RANGE(urls) THEN urls ELSE << url >> \o urls

add_visited_url(urls, url) ==
    IF url \in RANGE(urls) THEN urls ELSE Append(urls, url)

add_extracted_content(url, content) ==
    Append(extracted_content, [url |-> url, content |-> content])

\* update_context("search_results", value): the key is a list when present, and the
\* value is appended to it as one element; a missing key is set to the value.
update_context_search_results(page) ==
    IF search_results.present
    THEN [present |-> TRUE, items |-> Append(search_results.items, Nested(page))]
    ELSE [present |-> TRUE, items |-> FlatPage(page)]

should_continue_scraping ==
    /\ final_answers = << >>
    /\ Len(visited_urls) < max_visited_urls

\* Planning replies: the oracle call raises, or answers with a text.
Upper(a) == IF a = "finish" THEN "FINISH" ELSE a

PlanPayloads ==
    {[kind |-> "object", action |-> "SEARCH", url |-> NONE, query |-> q] :
        q \in {NONE, "query"}}
    \cup {[kind |-> "object", action |-> a, url |-> u, query |-> NONE] :
        a \in {"NAVIGATE"},
        u \in {NONE, "", Placeholder, OracleURL, "r2"}}
    \cup {[kind |-> "object", action |-> a, url |-> NONE, query |-> NONE] :
        a \in {"EXTRACT", "FINISH", "finish", "INTERACT", NONE, NULL}}
    \cup {[kind |-> k, action |-> NONE, url |-> NONE, query |-> NONE] :
        k \in {"array", "malformed"}}

PlanReplies ==
    {[raises |-> FALSE, text |-> [open |-> f[1], close |-> f[2], payload |-> p]] :
        f \in {<<"", "">>, <<FenceJson, Fence>>, <<Fence, Fence>>}, p \in PlanPayloads}
    \cup {[raises |-> TRUE,
           text |-> [open |-> "", close |-> "",
                     payload |-> [kind |-> "malformed", action |-> NONE,
                                  url |-> NONE, query |-> NONE]]]}

ActionData(type, action, url, query) ==
    [type |-> type, action |-> action, url |-> url, query |-> query]

Fallback_without_extract ==
    IF Len(StoredResults) > 0
    THEN ActionData("dict", "NAVIGATE", NONE, NONE)
    ELSE IF Len(visited_urls) > 0 /\ Len(extracted_content) > 0
    THEN ActionData("dict", "FINISH", NONE, NONE)
    ELSE ActionData("dict", "SEARCH", NONE, user_prompt)

Fallback_finish_before_navigate ==
    IF Truthy(current_url)
    THEN ActionData("dict", "EXTRACT", NONE, NONE)
    ELSE IF Len(visited_urls) > 0 /\ Len(extracted_content) > 0
    THEN ActionData("dict", "FINISH", NONE, NONE)
    ELSE IF Len(StoredResults) > 0
    THEN ActionData("dict", "NAVIGATE", NONE, NONE)
    ELSE ActionData("dict", "SEARCH", NONE, user_prompt)

\* The except json.JSONDecodeError branch of decide_next_action.
Fallback ==
    IF Truthy(current_url)
    THEN ActionData("dict", "EXTRACT", NONE, NONE)
    ELSE IF Len(StoredResults) > 0
    THEN ActionData("dict", "NAVIGATE", NONE, NONE)
    ELSE IF Len(visited_urls) > 0 /\ Len(extracted_content) > 0
    THEN ActionData("dict", "FINISH", NONE, NONE)
    ELSE ActionData("dict", "SEARCH", NONE, user_prompt)

\* [raised, fallback, data]: the oracle call raised; or the reply was no JSON and
\* data is the fallback; or data is the decoded reply.
decide_next_action(reply) ==
    IF reply.raises
    THEN [raised |-> TRUE, fallback |-> FALSE, data |-> ActionData("dict", NONE, NONE, NONE)]
    ELSE LET content == StripFences(reply.text)
         IN  IF JsonDecodeError(content)
             THEN [raised |-> FALSE, fallback |-> TRUE, data |-> Fallback]
             ELSE [raised |-> FALSE, fallback |-> FALSE,
                   data |-> ActionData(
                       IF content.payload.kind = "object" THEN "dict" ELSE "list",
                       content.payload.action, content.payload.url,
                       content.payload.query)]

\* Before decide_next_action has been called in an iteration.
NoDecision ==
    [raised |-> FALSE, fallback |-> FALSE, data |-> ActionData("none", NONE, NONE, NONE)]

Decisions == {decide_next_action(reply) : reply \in PlanReplies}

\* action_data.get("action", "").upper() raises on a reply that is no object and on
\* an action that is no string.
DispatchRaises(d) == d.raised \/ d.data.type # "dict" \/ d.data.action = NULL

\* action = action_data.get("action", "").upper()
Action(d) == IF d.data.action = NONE THEN "" ELSE Upper(d.data.action)

(***************************************************************************)
(* Replies of the extraction oracle.                                       *)
(***************************************************************************)
ExtractionPayload(kind, action, summary, key_points, ctx, output) ==
    [kind |-> kind, action |-> action, summary |-> summary,
     key_points |-> key_points, context |-> ctx, output |-> output]

Response(shape, open, close, payload) ==
    [shape |-> shape, text |-> [open |-> open, close |-> close, payload |-> payload]]

FullFinal == ExtractionPayload("object", "final", "summary", KPList(3), "context", "output")
FullNext == ExtractionPayload("object", "next_url", "summary", KPList(1), "", "")
OnlyOutput == ExtractionPayload("object", "final", NONE, KPAbsent, NONE, "Paris")
Garbage == ExtractionPayload("malformed", NONE, NONE, KPAbsent, NONE, NONE)

\* The extraction outcomes the loop is run against: the page cannot be read; the
\* oracle call raises; the oracle answers final, next_url, a partial record, no JSON.
LoopPages ==
    {[title_ok |-> TRUE, is_pdf |-> FALSE, fetch_ok |-> TRUE, content_ok |-> c] :
        c \in BOOLEAN}

LoopResponses ==
    {Response("raise", "", "", Garbage)}
    \cup {Response("function_call", "", "", p) : p \in {FullFinal, FullNext, OnlyOutput}}

LoopExtractions ==
    {extract_content(page, response) : page \in LoopPages, response \in LoopResponses}

(***************************************************************************)
(* mcp_guided_scraping                                                     *)
(***************************************************************************)
MaxQueries == 2
MaxExtracted == 1

Call(op, url, ok) == [op |-> op, arg |-> url, ok |-> ok, info |-> << >>]

\* relevant_content of generate_final_answer: the records whose action is not
\* next_url and whose summary is not empty.
RelevantContent ==
    LET keep(item) == item.content.action # "next_url" /\ Truthy(item.content.summary)
        brief(item) == [url |-> item.url, summary |-> item.content.summary,
                        key_points |-> item.content.key_points]
        kept == SelectSeq(extracted_content, keep)
    IN  [i \in DOMAIN kept |-> brief(kept[i])]

generate_final_answer_without_return(ok, before) ==
    /\ calls' = Append(before, [op |-> "generate_final_answer", arg |-> NONE,
                                ok |-> ok, info |-> RelevantContent])
    /\ IF ok
       THEN /\ final_answers' = Append(final_answers, "answer")
            /\ state' = "FINISHED"
            /\ result' = NONE
            /\ pc' = "loop"
       ELSE /\ pc' = "raised"
            /\ UNCHANGED << final_answers, state, result >>

\* generate_final_answer, then the return of its answer; the oracle call can raise.
generate_final_answer(ok, before) ==
    /\ calls' = Append(before, [op |-> "generate_final_answer", arg |-> NONE,
                                ok |-> ok, info |-> RelevantContent])
    /\ IF ok
       THEN /\ final_answers' = Append(final_answers, "answer")
            /\ state' = "FINISHED"
            /\ result' = "answer"
            /\ pc' = "returned"
       ELSE /\ pc' = "raised"
            /\ UNCHANGED << final_answers, state, result >>

\* No extraction call is being looked at.
NoExtraction ==
    [pc |-> "idle",
     page |-> [title_ok |-> TRUE, is_pdf |-> FALSE, fetch_ok |-> TRUE, content_ok |-> TRUE],
     response |-> Response("raise", "", "", Garbage),
     outcome |-> Raised]

\* No run of ai_web_scraper without a planner is being looked at.
NoScraper ==
    [pc |-> "idle", search_results |-> << >>, current_index |-> 0, pages |-> 0,
     calls |-> << >>, seen |-> << >>, result |-> NONE]

\* A page as perform_page_interactions finds it.
\*   search_form     find_search_form: none, an input with a submit button ("button"),
\*                   or an input alone ("enter")
\*   groups          number of form groups; group_submit: they have a submit button
\*   dropdowns, checkbox_radio   number of such elements
\*   input           a standalone text input: none, one without ("plain") or with
\*                   ("submit") a submit button nearby
\*   clickable       there are clickable elements
NoPage ==
    [search_form |-> "none", groups |-> 0, group_submit |-> FALSE, dropdowns |-> 0,
     checkbox_radio |-> 0, input |-> "none", clickable |-> FALSE]

\* clickable_count, form_inputs_count, dropdown_count, checkbox_radio_count as they
\* are initialised.
NoCounts == [clickable |-> 0, form_inputs |-> 0, dropdowns |-> 0, checkbox_radio |-> 0]

NoReport ==
    [timeout_reached |-> "absent", actions_performed |-> << >>, elements_found |-> NoCounts]

\* No call of perform_page_interactions is being looked at.
NoInteraction ==
    [pc |-> "idle", page |-> NoPage, elapsed_time |-> 0, index |-> 0,
     actions_performed |-> << >>, late |-> FALSE, submitted |-> {}, counts |-> NoCounts,
     report |-> NoReport]

\* What the browser answers during one search_google call.
NoSearchEnv ==
    [new_page_ok |-> TRUE, goto_ok |-> TRUE, load_ok |-> TRUE, evaluate_ok |-> TRUE,
     screenshot_ok |-> TRUE, close_ok |-> TRUE, found |-> << >>]

\* No call of search_google is being looked at.
NoSearch == [pc |-> "idle", env |-> NoSearchEnv, raised |-> FALSE, results |-> << >>]

\* What the extraction oracle of the legacy extract_content answers.
NoOracle == [ok |-> FALSE, content |-> ""]

\* No call of the legacy extract_content has been made.
NoLegacyExtract ==
    [called |-> FALSE, content_ok |-> TRUE, oracle |-> NoOracle, raised |-> FALSE,
     text |-> << >>]

\* No analysis has been received.
NoAnalysis == [action |-> NONE, url |-> NONE, seconds |-> NONE, output |-> NONE]

\* No run of the legacy ai_web_scraper is being looked at.
NoLegacy ==
    [pc |-> "idle", module |-> "test", analysis |-> NoAnalysis, analyses |-> << >>,
     calls |-> << >>, extract |-> NoLegacyExtract, raw |-> NONE, raised |-> FALSE,
     returned |-> NONE]

\* No checkbox is being looked at.
NoCheckbox ==
    [pc |-> "idle", label |-> {}, type |-> "checkbox", name_required |-> FALSE,
     user_prompt |-> {}, client |-> FALSE, checked |-> FALSE, history |-> << >>]

\* No call of select_best_element is being looked at.
NoSelector ==
    [pc |-> "idle", elements |-> << >>, user_prompt |-> {}, client |-> "none",
     element_id |-> 0, chosen |-> 0]

\* No run of browse_and_extract is being looked at.
NoBrowse ==
    [pc |-> "idle", env |-> NoSearchEnv, found |-> 0, search_results |-> << >>, i |-> 0,
     step |-> 0, asked |-> 0, open |-> {}, ended |-> << >>, final_answer |-> NONE,
     returned |-> << >>]

Init ==
    /\ pc = "loop"
    /\ visited_urls = << >>
    /\ extracted_content = << >>
    /\ search_queries = << >>
    /\ final_answers = << >>
    /\ search_results = [present |-> FALSE, items |-> << >>]
    /\ interactive_actions = NONE
    /\ state = "INITIAL"
    /\ current_url = NONE
    /\ result = NONE
    /\ decision = NoDecision
    /\ calls = << >>
    /\ extraction = NoExtraction
    /\ scraper = NoScraper
    /\ interaction = NoInteraction
    /\ search = NoSearch
    /\ checkbox = NoCheckbox
    /\ selector = NoSelector
    /\ legacy = NoLegacy
    /\ browse = NoBrowse

\* while mcp_planner.should_continue_scraping(): enter the body.
Continue ==
    /\ UNCHANGED units
    /\ pc = "loop"
    /\ should_continue_scraping
    /\ pc' = "plan"
    /\ decision' = NoDecision
    /\ calls' = << >>
    /\ UNCHANGED << visited_urls, extracted_content, search_queries, final_answers,
                    search_results, interactive_actions, state, current_url, result >>

\* The loop condition fails: the answer is synthesized after the loop.
LoopExit ==
    /\ UNCHANGED units
    /\ pc = "loop"
    /\ ~should_continue_scraping
    /\ \E ok \in BOOLEAN : generate_final_answer(ok, << >>)
    /\ UNCHANGED << visited_urls, extracted_content, search_queries, search_results,
                    interactive_actions, current_url, decision >>

\* The oracle call raises, or action_data.get("action", "").upper() does.
PlanRaises ==
    /\ UNCHANGED units
    /\ pc = "plan"
    /\ \E d \in Decisions :
          /\ DispatchRaises(d)
          /\ decision' = d
    /\ pc' = "raised"
    /\ calls' = << >>
    /\ UNCHANGED << visited_urls, extracted_content, search_queries, final_answers,
                    search_results, interactive_actions, state, current_url, result >>

\* Storing mutated: the page found takes the place of what was stored.
StoreSearchResults_replacing(page) == [present |-> TRUE, items |-> FlatPage(page)]

\* Storing a page of search results: the first page is stored as it is, later ones
\* are appended without the URLs already stored.
StoreSearchResults(page) ==
    IF Len(StoredResults) = 0
    THEN [present |-> TRUE, items |-> FlatPage(page)]
    ELSE LET existing_urls == {StoredResults[i].url : i \in DOMAIN StoredResults}
             new_results == SelectSeq(page, LAMBDA u : u \notin existing_urls)
         IN  [present |-> TRUE, items |-> StoredResults \o FlatPage(new_results)]

\* result["url"] on an element that is itself a list raises TypeError.
HasNested(items) == \E i \in DOMAIN items : items[i].nested

DoSearch ==
    /\ UNCHANGED units
    /\ pc = "plan"
    /\ Len(search_queries) < MaxQueries
    /\ \E d \in Decisions :
          /\ ~DispatchRaises(d)
          /\ Action(d) = "SEARCH"
          /\ decision' = d
          /\ LET search_query == IF d.data.query = NONE THEN user_prompt ELSE d.data.query
                 refine(ok) == [op |-> "refine_search_query", arg |-> search_query,
                                ok |-> ok, info |-> << >>]
             IN  \/ \* refine_search_query raises
                    /\ calls' = << refine(FALSE) >>
                    /\ pc' = "raised"
                    /\ UNCHANGED << search_queries, search_results, state >>
                 \/ \* search_google raises
                    /\ calls' = << refine(TRUE), Call("search_google", NONE, FALSE) >>
                    /\ search_queries' = Append(search_queries, "refined query")
                    /\ pc' = "raised"
                    /\ UNCHANGED << search_results, state >>
                 \/ \E page \in SearchPages :
                      /\ calls' = << refine(TRUE), Call("search_google", NONE, TRUE) >>
                      /\ search_queries' = Append(search_queries, "refined query")
                      /\ IF Len(StoredResults) > 0 /\ HasNested(StoredResults)
                         THEN /\ pc' = "raised"
                              /\ UNCHANGED << search_results, state >>
                         ELSE /\ search_results' = StoreSearchResults(page)
                              /\ state' = "SEARCH_RESULTS_AVAILABLE"
                              /\ pc' = "loop"
    /\ UNCHANGED << visited_urls, extracted_content, final_answers,
                    interactive_actions, current_url, result >>

url_to_navigate_preferring_results(url) ==
    IF Len(StoredResults) > 0 /\ ~HasNested(StoredResults)
    THEN LET unvisited_results ==
                 SelectSeq(StoredResults, LAMBDA r : r.url \notin RANGE(visited_urls))
         IN  IF Len(unvisited_results) > 0
             THEN unvisited_results[1].url
             ELSE StoredResults[1].url
    ELSE url

\* The URL a NAVIGATE goes to: the reply's own, or, when that is missing or a
\* placeholder and results are stored, the first stored result not yet visited, or
\* the first stored result when all were visited.
url_to_navigate(url) ==
    IF (~Truthy(url) \/ IsPlaceholder(url)) /\ Len(StoredResults) > 0
    THEN LET unvisited_results ==
                 SelectSeq(StoredResults, LAMBDA r : r.url \notin RANGE(visited_urls))
         IN  IF Len(unvisited_results) > 0
             THEN unvisited_results[1].url
             ELSE StoredResults[1].url
    ELSE url

\* r.get("url") on an element that is itself a list raises AttributeError.
FallbackRaises(url) ==
    /\ ~Truthy(url) \/ IsPlaceholder(url)
    /\ HasNested(StoredResults)

\* perform_page_interactions inside its own try: the report is stored when it returns.
Interact(ok) == IF ok THEN "report" ELSE interactive_actions

ExtractInto_always_complete(url, outcome, on_error) ==
    IF outcome.raised
    THEN /\ state' = on_error
         /\ UNCHANGED extracted_content
    ELSE /\ extracted_content' = add_extracted_content(url, outcome.value)
         /\ state' = "EXTRACTION_COMPLETE"

\* extract_content inside its own try; on_error is the state an exception leaves.
ExtractInto(url, outcome, on_error) ==
    IF outcome.raised
    THEN /\ state' = on_error
         /\ UNCHANGED extracted_content
    ELSE /\ extracted_content' = add_extracted_content(url, outcome.value)
         /\ state' = IF outcome.value.action = "final"
                      THEN "FINAL_ANSWER_FOUND"
                      ELSE "EXTRACTION_COMPLETE"

next_page_state_ignoring_page(new_results) == "SEARCH_RESULTS_AVAILABLE"

\* The state after search_next_page returned new_results.
next_page_state(new_results) ==
    IF Len(new_results) > 0 THEN "SEARCH_RESULTS_AVAILABLE" ELSE "NO_MORE_RESULTS"

after_navigation_error_keeping(url) == url

\* except Exception: current_url = None
after_navigation_error(url) == NONE

ExtractionAllowed(outcome) == outcome.raised \/ Len(extracted_content) < MaxExtracted

DoNavigate ==
    /\ UNCHANGED units
    /\ pc = "plan"
    /\ \E d \in Decisions :
          /\ ~DispatchRaises(d)
          /\ Action(d) = "NAVIGATE"
          /\ decision' = d
          /\ IF FallbackRaises(d.data.url)
             THEN /\ pc' = "raised"
                  /\ calls' = << >>
                  /\ UNCHANGED << visited_urls, extracted_content, search_results,
                                  interactive_actions, state, current_url >>
             ELSE LET url == url_to_navigate(d.data.url)
                  IN  IF Truthy(url)
                      THEN \/ \* go_to_url raises
                              /\ calls' = << Call("go_to_url", url, FALSE) >>
                              /\ current_url' = after_navigation_error(url)
                              /\ state' = "NAVIGATION_ERROR"
                              /\ pc' = "loop"
                              /\ UNCHANGED << visited_urls, extracted_content,
                                              search_results, interactive_actions >>
                           \/ \E interacted \in BOOLEAN, outcome \in LoopExtractions :
                                /\ ExtractionAllowed(outcome)
                                /\ calls' = << Call("go_to_url", url, TRUE),
                                               Call("perform_page_interactions", url, interacted),
                                               Call("extract_content", url, ~outcome.raised) >>
                                /\ current_url' = url
                                /\ visited_urls' = add_visited_url(visited_urls, url)
                                /\ interactive_actions' = Interact(interacted)
                                /\ ExtractInto(url, outcome, "PAGE_LOADED")
                                /\ pc' = "loop"
                                /\ UNCHANGED search_results
                      ELSE \/ \* search_next_page raises
                              /\ calls' = << Call("search_next_page", NONE, FALSE) >>
                              /\ pc' = "raised"
                              /\ UNCHANGED << visited_urls, extracted_content, search_results,
                                              interactive_actions, state, current_url >>
                           \/ \E new_results \in NextPages :
                                /\ calls' = << [op |-> "search_next_page", arg |-> NONE,
                                                ok |-> TRUE, info |-> new_results] >>
                                /\ state' = next_page_state(new_results)
                                /\ search_results' =
                                       IF Len(new_results) > 0
                                       THEN update_context_search_results(new_results)
                                       ELSE search_results
                                /\ pc' = "loop"
                                /\ UNCHANGED << visited_urls, extracted_content,
                                                interactive_actions, current_url >>
    /\ UNCHANGED << search_queries, final_answers, result >>

DoExtract ==
    /\ UNCHANGED units
    /\ pc = "plan"
    /\ \E d \in Decisions :
          /\ ~DispatchRaises(d)
          /\ Action(d) = "EXTRACT"
          /\ decision' = d
          /\ IF Truthy(current_url)
             THEN \E interacted \in BOOLEAN, outcome \in LoopExtractions :
                    /\ ExtractionAllowed(outcome)
                    /\ calls' = << Call("perform_page_interactions", current_url, interacted),
                                   Call("extract_content", current_url, ~outcome.raised) >>
                    /\ interactive_actions' = Interact(interacted)
                    /\ ExtractInto(current_url, outcome, "EXTRACTION_ERROR")
             ELSE /\ calls' = << >>
                  /\ state' = "NO_CURRENT_PAGE"
                  /\ UNCHANGED << extracted_content, interactive_actions >>
    /\ pc' = "loop"
    /\ UNCHANGED << visited_urls, search_queries, final_answers, search_results,
                    current_url, result >>

\* FINISH: generate_final_answer, save the outputs, return the answer.
DoFinish ==
    /\ UNCHANGED units
    /\ pc = "plan"
    /\ \E d \in Decisions :
          /\ ~DispatchRaises(d)
          /\ Action(d) = "FINISH"
          /\ decision' = d
    /\ \E ok \in BOOLEAN : generate_final_answer(ok, << >>)
    /\ UNCHANGED << visited_urls, extracted_content, search_queries, search_results,
                    interactive_actions, current_url >>

\* else: logger.warning("Unknown action") and the next iteration.
DoUnknown ==
    /\ UNCHANGED units
    /\ pc = "plan"
    /\ \E d \in Decisions :
          /\ ~DispatchRaises(d)
          /\ Action(d) \notin {"SEARCH", "NAVIGATE", "EXTRACT", "FINISH"}
          /\ decision' = d
    /\ calls' = << >>
    /\ pc' = "loop"
    /\ UNCHANGED << visited_urls, extracted_content, search_queries, final_answers,
                    search_results, interactive_actions, state, current_url, result >>

Next ==
    \/ Continue
    \/ LoopExit
    \/ PlanRaises
    \/ DoSearch
    \/ DoNavigate
    \/ DoExtract
    \/ DoFinish
    \/ DoUnknown

Spec == Init /\ [][Next]_vars

\* The loop goes on as long as it has not returned or raised.
FairSpec == Spec /\ WF_vars(Next)

(***************************************************************************)
(* The page extraction by itself: one call of extract_content, or of       *)
(* extract_with_function_call, on each page and each reply of the oracle.  *)
(***************************************************************************)
ExtractionPayloads ==
    {ExtractionPayload("object", a, s, k, c, o) :
        a \in {NONE, "final", "next_url", "maybe"},
        s \in {NONE, "", "summary"},
        k \in {KPAbsent, KPNull, KPList(0), KPList(3)},
        c \in {NONE, "context"},
        o \in {NONE, "", "Paris"}}
    \cup {ExtractionPayload(kind, NONE, NONE, KPAbsent, NONE, NONE) :
        kind \in {"array", "array_with_action", "number", "malformed"}}

Responses ==
    {Response(shape, open, close, payload) :
        shape \in {"function_call", "content", "additional_kwargs", "str"},
        open \in FenceOpen, close \in FenceClose, payload \in ExtractionPayloads}
    \cup {Response("dict", "", "", payload) :
            payload \in {q \in ExtractionPayloads : q.kind = "object"}}
    \cup {Response(shape, "", "", Garbage) : shape \in {"raise", "empty"}}

\* agents/browser: the arguments of a function call are returned as decoded; any
\* other reply gives the fallback record; a failing API call is not caught.
agents_extract_with_function_call(response) ==
    CASE response.shape = "raise" -> Raised
      [] response.shape = "function_call" ->
            IF JsonDecodeError(response.text)
            THEN Returned(DefaultExtraction)
            ELSE Returned(Loaded(response.text.payload))
      [] OTHER -> Returned(DefaultExtraction)

\* No planner-guided run is under way.
PlannerIdle ==
    /\ pc = "idle"
    /\ visited_urls = << >>
    /\ extracted_content = << >>
    /\ search_queries = << >>
    /\ final_answers = << >>
    /\ search_results = [present |-> FALSE, items |-> << >>]
    /\ interactive_actions = NONE
    /\ state = "INITIAL"
    /\ current_url = NONE
    /\ result = NONE
    /\ decision = NoDecision
    /\ calls = << >>

InitExtraction ==
    /\ PlannerIdle
    /\ scraper = NoScraper
    /\ interaction = NoInteraction
    /\ search = NoSearch
    /\ checkbox = NoCheckbox
    /\ selector = NoSelector
    /\ legacy = NoLegacy
    /\ browse = NoBrowse
    /\ extraction \in {[pc |-> "call", page |-> page, response |-> response,
                         outcome |-> Raised] : page \in Pages, response \in Responses}

ExtractContent ==
    /\ extraction.pc = "call"
    /\ extraction' = [extraction EXCEPT
           !.pc = "extract_content",
           !.outcome = extract_content(extraction.page, extraction.response)]
    /\ UNCHANGED << planner_vars, checkbox, selector, legacy, browse, scraper, interaction, search >>

ExtractWithFunctionCall ==
    /\ extraction.pc = "call"
    /\ extraction' = [extraction EXCEPT
           !.pc = "extract_with_function_call",
           !.outcome = Returned(extract_with_function_call(extraction.response))]
    /\ UNCHANGED << planner_vars, checkbox, selector, legacy, browse, scraper, interaction, search >>

AgentsExtractWithFunctionCall ==
    /\ extraction.pc = "call"
    /\ extraction' = [extraction EXCEPT
           !.pc = "agents_extract_with_function_call",
           !.outcome = agents_extract_with_function_call(extraction.response)]
    /\ UNCHANGED << planner_vars, checkbox, selector, legacy, browse, scraper, interaction, search >>

NextExtraction ==
    \/ ExtractContent
    \/ ExtractWithFunctionCall
    \/ AgentsExtractWithFunctionCall

SpecExtraction == InitExtraction /\ [][NextExtraction]_vars

(***************************************************************************)
(* ai_web_scraper without a planner: the search results are walked in      *)
(* order, page after page, until an extraction says final or no further    *)
(* page of results is left.                                                *)
(***************************************************************************)
\* The number of further result pages a run is followed through.
MaxNextPages == 2

Sentinel == "Scraper finished execution without a final outcome."

FinalNoOutput == ExtractionPayload("object", "final", "summary", KPList(1), "context", NONE)

ScraperResponses ==
    LoopResponses \cup {Response("function_call", "", "", FinalNoOutput)}

ScraperExtractions ==
    {extract_content(page, response) : page \in LoopPages, response \in ScraperResponses}

action_type_never_final(extraction_result) == "next_url"

\* action_type = extraction_result.get("action", "next_url")
action_type(extraction_result) ==
    IF extraction_result.action = NONE THEN "next_url" ELSE extraction_result.action

\* final_output = extraction_result.get("output", "Final outcome reached")
final_output(extraction_result) ==
    IF extraction_result.output = NONE
    THEN "Final outcome reached"
    ELSE extraction_result.output

\* One entry of the walk: the URL, what its extraction said ("navigation_error" when
\* the page was not reached) and the output of its record.
Seen(url, action, output) == [url |-> url, action |-> action, output |-> output]

InitScraper ==
    /\ PlannerIdle
    /\ extraction = NoExtraction
    /\ interaction = NoInteraction
    /\ search = NoSearch
    /\ checkbox = NoCheckbox
    /\ selector = NoSelector
    /\ legacy = NoLegacy
    /\ browse = NoBrowse
    /\ scraper = [NoScraper EXCEPT !.pc = "start"]

\* refined_query = refine_search_query(...); search_results = search_google(...);
\* current_index = 0.  Neither call is inside a try.
ScraperStart ==
    /\ scraper.pc = "start"
    /\ \/ scraper' = [scraper EXCEPT
              !.pc = "raised",
              !.calls = << Call("refine_search_query", user_prompt, FALSE) >>]
       \/ scraper' = [scraper EXCEPT
              !.pc = "raised",
              !.calls = << Call("refine_search_query", user_prompt, TRUE),
                           Call("search_google", NONE, FALSE) >>]
       \/ \E page \in SearchPages :
            scraper' = [scraper EXCEPT
              !.pc = "loop",
              !.search_results = page,
              !.current_index = 0,
              !.calls = << Call("refine_search_query", user_prompt, TRUE),
                           Call("search_google", NONE, TRUE) >>]
    /\ UNCHANGED << planner_vars, checkbox, selector, legacy, browse, extraction, interaction, search >>

ScraperNavigationError_aborting ==
    /\ scraper.pc = "loop"
    /\ scraper.current_index < Len(scraper.search_results)
    /\ LET current_url_ == scraper.search_results[scraper.current_index + 1]
       IN  scraper' = [scraper EXCEPT
              !.pc = "raised",
              !.calls = << Call("go_to_url", current_url_, FALSE) >>,
              !.seen = Append(@, Seen(current_url_, "navigation_error", NONE))]
    /\ UNCHANGED << planner_vars, checkbox, selector, legacy, browse, extraction, interaction, search >>

\* go_to_url raises: browser.go_back() is tried, its own failure passed over, and
\* the walk goes on with the next result.
ScraperNavigationError ==
    /\ scraper.pc = "loop"
    /\ scraper.current_index < Len(scraper.search_results)
    /\ LET current_url_ == scraper.search_results[scraper.current_index + 1]
       IN  \E back \in BOOLEAN :
             scraper' = [scraper EXCEPT
                !.calls = << Call("go_to_url", current_url_, FALSE),
                             Call("go_back", NONE, back) >>,
                !.current_index = @ + 1,
                !.seen = Append(@, Seen(current_url_, "navigation_error", NONE))]
    /\ UNCHANGED << planner_vars, checkbox, selector, legacy, browse, extraction, interaction, search >>

\* go_to_url returns: the page is extracted (an exception of extract_content gives
\* the default record); final returns the output, anything else goes on.
ScraperExtract ==
    /\ scraper.pc = "loop"
    /\ scraper.current_index < Len(scraper.search_results)
    /\ LET current_url_ == scraper.search_results[scraper.current_index + 1]
       IN  \E outcome \in ScraperExtractions :
             LET extraction_result ==
                     IF outcome.raised THEN DefaultExtraction ELSE outcome.value
                 visit == << Call("go_to_url", current_url_, TRUE),
                             Call("extract_content", current_url_, ~outcome.raised) >>
                 entry == Seen(current_url_,
                               IF extraction_result.action = NONE
                               THEN "next_url" ELSE extraction_result.action,
                               extraction_result.output)
             IN  IF action_type(extraction_result) = "final"
                 THEN scraper' = [scraper EXCEPT
                          !.pc = "returned",
                          !.calls = visit,
                          !.seen = Append(@, entry),
                          !.result = final_output(extraction_result)]
                 ELSE scraper' = [scraper EXCEPT
                          !.calls = visit,
                          !.seen = Append(@, entry),
                          !.current_index = @ + 1]
    /\ UNCHANGED << planner_vars, checkbox, selector, legacy, browse, extraction, interaction, search >>

\* The results are used up: the next page of results replaces them, or, when there
\* is none, the walk ends with the sentinel.
ScraperNextPage ==
    /\ scraper.pc = "loop"
    /\ scraper.current_index >= Len(scraper.search_results)
    /\ \/ scraper' = [scraper EXCEPT
              !.pc = "raised",
              !.calls = << Call("search_next_page", NONE, FALSE) >>]
       \/ \E new_results \in NextPages :
            /\ Len(new_results) > 0 => scraper.pages < MaxNextPages
            /\ scraper' =
                 IF Len(new_results) > 0
                 THEN [scraper EXCEPT
                          !.calls = << Call("search_next_page", NONE, TRUE) >>,
                          !.search_results = new_results,
                          !.current_index = 0,
                          !.pages = @ + 1]
                 ELSE [scraper EXCEPT
                          !.pc = "returned",
                          !.calls = << Call("search_next_page", NONE, TRUE) >>,
                          !.result = Sentinel]
    /\ UNCHANGED << planner_vars, checkbox, selector, legacy, browse, extraction, interaction, search >>

NextScraper ==
    \/ ScraperStart
    \/ ScraperNavigationError
    \/ ScraperExtract
    \/ ScraperNextPage

SpecScraper == InitScraper /\ [][NextScraper]_vars

(***************************************************************************)
(* perform_page_interactions by itself.  Time passes while the browser and *)
(* the oracle are awaited; is_timeout() looks at the clock only where the  *)
(* code calls it.                                                          *)
(***************************************************************************)
\* max_time_seconds = 60 by default in the source.  The clock is counted in ticks
\* and the limit is a few ticks, so that it is passed within the explored calls.
max_time_seconds == 2

\* The most elements of one kind (form groups, dropdowns, checkboxes) on a page.
MaxElements == 1

InteractionPages ==
    [search_form : {"none", "button", "enter"},
     groups : 0..MaxElements, group_submit : BOOLEAN,
     dropdowns : 0..MaxElements, checkbox_radio : 0..MaxElements,
     input : {"none", "plain", "submit"}, clickable : BOOLEAN]

\* What one await can take: no time, one tick, or longer than the whole limit.
Durations == {0, 1, max_time_seconds + 1}

\* The clock after an await of duration d; it is not followed beyond the limit.
Elapsed(elapsed_time, d) == Min(elapsed_time + d, max_time_seconds + 1)

\* elapsed_time > max_time_seconds
is_timeout(elapsed_time) == elapsed_time > max_time_seconds

\* The returned dict: timeout_reached is "true", "false", or "absent" when the dict
\* has no such key.
\* elements_found holds the four counts as they stand when the dict is built.
Report(timeout_reached, actions_performed) ==
    [timeout_reached |-> timeout_reached, actions_performed |-> actions_performed,
     elements_found |-> interaction.counts]

\* The lengths of the four lists get_interactive_elements_with_details returns for
\* the page: every form group holds one input.
Discovered(page) ==
    [clickable |-> IF page.clickable THEN 1 ELSE 0,
     form_inputs |-> page.groups + (IF page.input = "none" THEN 0 ELSE 1),
     dropdowns |-> page.dropdowns,
     checkbox_radio |-> page.checkbox_radio]

InitInteraction ==
    /\ PlannerIdle
    /\ extraction = NoExtraction
    /\ scraper = NoScraper
    /\ search = NoSearch
    /\ checkbox = NoCheckbox
    /\ selector = NoSelector
    /\ legacy = NoLegacy
    /\ browse = NoBrowse
    /\ interaction \in {[NoInteraction EXCEPT !.pc = "start", !.page = page] :
                           page \in InteractionPages}

\* get_current_page, page.title() and the content snippet (outside any try), the
\* scrolling (inside its own try), then start_time is taken.
InteractionStart ==
    /\ interaction.pc = "start"
    /\ \/ interaction' = [interaction EXCEPT !.pc = "raised"]
       \/ \E scrolled \in BOOLEAN :
            interaction' = [interaction EXCEPT
               !.pc = "discover",
               !.elapsed_time = 0,
               !.actions_performed = IF scrolled THEN << "scrolled" >> ELSE << >>]
    /\ UNCHANGED << planner_vars, checkbox, selector, legacy, browse, extraction, scraper, search >>

\* get_interactive_elements_with_details (which catches its own exceptions and
\* always returns the four lists), then the first is_timeout(), then the counts.
InteractionDiscover ==
    /\ interaction.pc = "discover"
    /\ \E d \in Durations :
         LET now == Elapsed(interaction.elapsed_time, d)
         IN  interaction' =
               IF is_timeout(now)
               THEN [interaction EXCEPT
                       !.pc = "returned", !.elapsed_time = now,
                       !.report = Report("true",
                           Append(interaction.actions_performed, "timeout: exploration"))]
               ELSE [interaction EXCEPT !.pc = "forms", !.elapsed_time = now,
                                        !.counts = Discovered(interaction.page)]
    /\ UNCHANGED << planner_vars, checkbox, selector, legacy, browse, extraction, scraper, search >>

\* identify_form_groups and find_search_form; a search form is filled and submitted
\* (its submit button clicked, or Enter pressed) and the report returned at once.
InteractionFindForms ==
    /\ interaction.pc = "forms"
    /\ \E d \in Durations, text \in Durations, found \in BOOLEAN :
         LET now == Elapsed(interaction.elapsed_time, d)
             filled == Elapsed(now, text)
             actions == Append(interaction.actions_performed, "search form")
         IN  interaction' =
               IF interaction.page.search_form = "none"
               THEN [interaction EXCEPT !.pc = "groups", !.index = 0, !.elapsed_time = now]
               ELSE IF found
               THEN [interaction EXCEPT
                       !.pc = "returned", !.elapsed_time = filled,
                       !.late = @ \/ is_timeout(filled),
                       !.submitted = @ \cup {"search_form"},
                       !.actions_performed = actions,
                       !.report = Report("absent", actions)]
               ELSE [interaction EXCEPT
                       !.pc = "returned", !.elapsed_time = now,
                       !.actions_performed = actions,
                       !.report = Report("absent", actions)]
    /\ UNCHANGED << planner_vars, checkbox, selector, legacy, browse, extraction, scraper, search >>

\* One turn of a loop over elements: is_timeout() first, which logs, breaks and
\* returns the timeout report; otherwise the element is operated and logged when
\* that succeeded.  submit names the submission the operation ends with, if any.
LoopTurn(count, next_pc, tag, submit) ==
    IF interaction.index >= count
    THEN interaction' = [interaction EXCEPT !.pc = next_pc, !.index = 0]
    ELSE IF is_timeout(interaction.elapsed_time)
    THEN LET actions == Append(interaction.actions_performed, "timeout: " \o tag)
         IN  interaction' = [interaction EXCEPT
                !.pc = "returned",
                !.actions_performed = actions,
                !.report = Report("true", actions)]
    ELSE \E d \in Durations, success \in BOOLEAN :
           LET now == Elapsed(interaction.elapsed_time, d)
           IN  interaction' =
                 IF success
                 THEN [interaction EXCEPT
                         !.index = @ + 1, !.elapsed_time = now,
                         !.late = @ \/ is_timeout(now),
                         !.submitted = @ \cup submit,
                         !.actions_performed = Append(@, tag)]
                 ELSE [interaction EXCEPT !.index = @ + 1, !.elapsed_time = now]

\* for group in form_groups: interact_with_form_group fills the inputs of the group
\* and clicks the first submit button of the form when it has one.
InteractionFormGroup ==
    /\ interaction.pc = "groups"
    /\ LoopTurn(interaction.page.groups, "dropdowns", "form group",
                IF interaction.page.group_submit THEN {"form_group"} ELSE {})
    /\ UNCHANGED << planner_vars, checkbox, selector, legacy, browse, extraction, scraper, search >>

\* for dropdown in element_details["dropdowns"]: interact_with_dropdown
InteractionDropdown ==
    /\ interaction.pc = "dropdowns"
    /\ LoopTurn(interaction.page.dropdowns, "checkbox_radio", "dropdown", {})
    /\ UNCHANGED << planner_vars, checkbox, selector, legacy, browse, extraction, scraper, search >>

\* for element in element_details["checkbox_radio"]: interact_with_checkbox_radio
InteractionCheckbox ==
    /\ interaction.pc = "checkbox_radio"
    /\ LoopTurn(interaction.page.checkbox_radio, "inputs", "checkbox_radio", {})
    /\ UNCHANGED << planner_vars, checkbox, selector, legacy, browse, extraction, scraper, search >>

\* The best standalone input is filled; a submit button found next to it is clicked
\* and the report returned at once.
InteractionInput ==
    /\ interaction.pc = "inputs"
    /\ IF interaction.page.input = "none"
       THEN interaction' = [interaction EXCEPT !.pc = "clickable"]
       ELSE IF is_timeout(interaction.elapsed_time)
       THEN LET actions == Append(interaction.actions_performed, "timeout: input")
            IN  interaction' = [interaction EXCEPT
                   !.pc = "returned",
                   !.actions_performed = actions,
                   !.report = Report("true", actions)]
       ELSE \E d \in Durations, best_input \in BOOLEAN :
              LET now == Elapsed(interaction.elapsed_time, d)
                  filled == Append(interaction.actions_performed, "input")
                  clicked == Append(filled, "submit button")
              IN  interaction' =
                    IF ~best_input
                    THEN [interaction EXCEPT !.pc = "clickable", !.elapsed_time = now]
                    ELSE IF interaction.page.input = "submit"
                    THEN [interaction EXCEPT
                            !.pc = "returned", !.elapsed_time = now,
                            !.late = @ \/ is_timeout(now),
                            !.submitted = @ \cup {"input"},
                            !.actions_performed = clicked,
                            !.report = Report("absent", clicked)]
                    ELSE [interaction EXCEPT
                            !.pc = "clickable", !.elapsed_time = now,
                            !.late = @ \/ is_timeout(now),
                            !.actions_performed = filled]
    /\ UNCHANGED << planner_vars, checkbox, selector, legacy, browse, extraction, scraper, search >>

\* The best clickable element is clicked, then the closing report is returned with
\* the local timeout_reached, which is still False here.
InteractionClick ==
    /\ interaction.pc = "clickable"
    /\ IF ~interaction.page.clickable
       THEN interaction' = [interaction EXCEPT
              !.pc = "returned",
              !.report = Report("false", interaction.actions_performed)]
       ELSE IF is_timeout(interaction.elapsed_time)
       THEN LET actions == Append(interaction.actions_performed, "timeout: clickable")
            IN  interaction' = [interaction EXCEPT
                   !.pc = "returned",
                   !.actions_performed = actions,
                   !.report = Report("true", actions)]
       ELSE \E d \in Durations, best_element \in BOOLEAN :
              LET now == Elapsed(interaction.elapsed_time, d)
                  clicked == Append(interaction.actions_performed, "click")
              IN  interaction' =
                    IF best_element
                    THEN [interaction EXCEPT
                            !.pc = "returned", !.elapsed_time = now,
                            !.late = @ \/ is_timeout(now),
                            !.actions_performed = clicked,
                            !.report = Report("false", clicked)]
                    ELSE [interaction EXCEPT
                            !.pc = "returned", !.elapsed_time = now,
                            !.report = Report("false", interaction.actions_performed)]
    /\ UNCHANGED << planner_vars, checkbox, selector, legacy, browse, extraction, scraper, search >>

NextInteraction ==
    \/ InteractionStart
    \/ InteractionDiscover
    \/ InteractionFindForms
    \/ InteractionFormGroup
    \/ InteractionDropdown
    \/ InteractionCheckbox
    \/ InteractionInput
    \/ InteractionClick

SpecInteraction == InitInteraction /\ [][NextInteraction]_vars

(***************************************************************************)
(* search_google by itself: agents/browser/services/google_search.py and   *)
(* try_cheena.py, on every answer of the browser.                          *)
(***************************************************************************)
\* The longest list of results the results page is given.
MaxFound == 4

MAX_SEARCH_RESULTS == 3

\* A result as the page script collects it: with title, URL and snippet ("good"),
\* without snippet ("plain"), with an empty title ("no_title"), a youtube.com URL
\* without snippet ("youtube").
ResultKinds == {"good", "plain", "no_title", "youtube"}

HasSnippet(r) == r \in {"good", "no_title"}

Founds == UNION {[1..n -> ResultKinds] : n \in 0..MaxFound}

SearchEnvs ==
    [new_page_ok : BOOLEAN, goto_ok : BOOLEAN, load_ok : BOOLEAN, evaluate_ok : BOOLEAN,
     screenshot_ok : BOOLEAN, close_ok : BOOLEAN, found : Founds]

\* seq[:n]
Take(seq, n) == SubSeq(seq, 1, Min(n, Len(seq)))

\* agents/browser: get_current_page, goto, wait_for_load_state and evaluate are
\* awaited outside any try; the page script keeps the first ten results.
agents_search_google(env) ==
    IF env.new_page_ok /\ env.goto_ok /\ env.load_ok /\ env.evaluate_ok
    THEN [raised |-> FALSE, results |-> Take(env.found, 10)]
    ELSE [raised |-> TRUE, results |-> << >>]

\* items.sort((a, b) => (b.snippet.length > 0) - (a.snippet.length > 0)); slice(0, 5)
SortedBySnippet(found) ==
    Take(SelectSeq(found, HasSnippet) \o SelectSeq(found, LAMBDA r : ~HasSnippet(r)), 5)

\* try_cheena's search mutated: the filtered results are returned whole.
try_cheena_search_google_untruncated(env) ==
    IF ~env.new_page_ok \/ ~env.close_ok
    THEN [raised |-> TRUE, results |-> << >>]
    ELSE LET results == IF env.goto_ok /\ env.load_ok /\ env.evaluate_ok
                        THEN SortedBySnippet(env.found)
                        ELSE << >>
         IN  [raised |-> FALSE,
              results |-> SelectSeq(results, LAMBDA r : r \in {"good", "plain"})]

\* try_cheena: new_page is outside the try; goto, wait_for_selector and evaluate are
\* inside it and leave results empty when they fail (the screenshot is tried, its
\* failure logged); page.close() in the finally is not guarded; the results without
\* URL or title and the youtube ones are dropped and the first MAX_SEARCH_RESULTS kept.
try_cheena_search_google(env) ==
    IF ~env.new_page_ok
    THEN [raised |-> TRUE, results |-> << >>]
    ELSE LET results == IF env.goto_ok /\ env.load_ok /\ env.evaluate_ok
                        THEN SortedBySnippet(env.found)
                        ELSE << >>
             filtered_results == SelectSeq(results, LAMBDA r : r \in {"good", "plain"})
         IN  IF ~env.close_ok
             THEN [raised |-> TRUE, results |-> << >>]
             ELSE [raised |-> FALSE, results |-> Take(filtered_results, MAX_SEARCH_RESULTS)]

InitSearch ==
    /\ PlannerIdle
    /\ extraction = NoExtraction
    /\ scraper = NoScraper
    /\ interaction = NoInteraction
    /\ legacy = NoLegacy
    /\ browse = NoBrowse
    /\ checkbox = NoCheckbox
    /\ selector = NoSelector
    /\ search \in {[NoSearch EXCEPT !.pc = "call", !.env = env] : env \in SearchEnvs}

SearchGoogle ==
    /\ search.pc = "call"
    /\ search' = [search EXCEPT
           !.pc = "search_google",
           !.raised = agents_search_google(search.env).raised,
           !.results = agents_search_google(search.env).results]
    /\ UNCHANGED << planner_vars, checkbox, selector, legacy, browse, extraction, scraper, interaction >>

TryCheenaSearchGoogle ==
    /\ search.pc = "call"
    /\ search' = [search EXCEPT
           !.pc = "try_cheena_search_google",
           !.raised = try_cheena_search_google(search.env).raised,
           !.results = try_cheena_search_google(search.env).results]
    /\ UNCHANGED << planner_vars, checkbox, selector, legacy, browse, extraction, scraper, interaction >>

NextSearch ==
    \/ SearchGoogle
    \/ TryCheenaSearchGoogle

SpecSearch == InitSearch /\ [][NextSearch]_vars

(***************************************************************************)
(* The ai_web_scraper and extract_content of src/services and of test.py   *)
(***************************************************************************)
\* The most actions one run is followed through.
MaxLegacyActions == 2

\* The two modules that hold a copy of ai_web_scraper.
LegacyModules == {"services", "test"}

\* test.py defines wait next to ai_web_scraper; src/services/orchestrator.py imports
\* search_google, go_to_url and extract_content and neither imports nor defines wait.
wait_is_defined(module) == module = "test"

\* What gpt_llm.analyze may answer: the four documented forms, with and without their
\* fields, an action that is none of them, and an answer without action.
Analyses ==
    {[NoAnalysis EXCEPT !.action = "go_to_url", !.url = u] : u \in {"r1", "", NONE}}
    \cup {[NoAnalysis EXCEPT !.action = "wait", !.seconds = s] : s \in {"5", NONE}}
    \cup {[NoAnalysis EXCEPT !.action = "extract_content"]}
    \cup {[NoAnalysis EXCEPT !.action = "final", !.output = o] : o \in {"answer", NONE}}
    \cup {[NoAnalysis EXCEPT !.action = "scroll"], NoAnalysis}

\* The head of the text extract_content returns (the page sign, 'Extracted from
\* page:' and a line break); the texts are kept as the sequence of their parts.
Marker == "Extracted from page:"

\* markdownify.markdownify(content_html)
Markdown == "markdown of the page"

Oracles == {[ok |-> TRUE, content |-> "reply"], NoOracle}

\* extract_content mutated: the oracle's failure is not caught.
legacy_extract_content_unguarded(content_ok, oracle) ==
    IF content_ok /\ oracle.ok
    THEN [raised |-> FALSE, text |-> << Marker, oracle.content, "\n" >>]
    ELSE [raised |-> TRUE, text |-> << >>]

\* extract_content: page.content() and markdownify are outside the try; the oracle
\* call and the formatting of its reply are inside it, the except formats the
\* markdown of the page.
legacy_extract_content(content_ok, oracle) ==
    IF ~content_ok
    THEN [raised |-> TRUE, text |-> << >>]
    ELSE IF oracle.ok
         THEN [raised |-> FALSE, text |-> << Marker, oracle.content, "\n" >>]
         ELSE [raised |-> FALSE, text |-> << Marker, Markdown, "\n" >>]

\* analysis.get("output", "Final outcome reached")
legacy_final_output(analysis) ==
    IF analysis.output = NONE THEN "Final outcome reached" ELSE analysis.output

\* analysis.get("seconds", 3)
legacy_seconds(analysis) == IF analysis.seconds = NONE THEN "3" ELSE analysis.seconds

LegacyCall(name, arg, ok) == [name |-> name, arg |-> arg, ok |-> ok]

\* The output analyze gives for a reply that json.loads rejects: the parse-error
\* text with the reply behind it ('Failed to parse GPT output: ' in test.py and
\* agents/browser/llm.py, 'GPT parse error: ' in planner/openai_gpt.py).
ParseError == "Failed to parse GPT output: <reply>"

\* What the oracle does when analyze asks it: the call raises, the reply is no JSON,
\* or it is a JSON object.
AnalyzeReplies ==
    {[kind |-> k, analysis |-> NoAnalysis] : k \in {"raise", "not_json"}}
    \cup {[kind |-> "json", analysis |-> a] : a \in Analyses}

\* analyze mutated: json.loads is not guarded.
analyze_unguarded(reply) ==
    IF reply.kind = "json"
    THEN [raised |-> FALSE, analysis |-> reply.analysis]
    ELSE [raised |-> TRUE, analysis |-> NoAnalysis]

\* OpenAIGPT.analyze: the oracle call is outside the try; json.loads is inside it and
\* its failure gives the action 'final' with the parse-error text as output.
analyze(reply) ==
    CASE reply.kind = "raise" -> [raised |-> TRUE, analysis |-> NoAnalysis]
      [] reply.kind = "not_json" ->
             [raised |-> FALSE,
              analysis |-> [NoAnalysis EXCEPT !.action = "final", !.output = ParseError]]
      [] OTHER -> [raised |-> FALSE, analysis |-> reply.analysis]

\* analysis = await gpt_llm.analyze(result), after the calls made: the answer becomes
\* the latest analysis, a failure of the call leaves the function.
Analyze(l, made, res, reply) ==
    LET out == analyze(reply)
    IN  IF ~out.raised
        THEN [l EXCEPT !.pc = "loop", !.analysis = out.analysis,
                       !.analyses = Append(@, out.analysis), !.raw = reply.kind,
                       !.calls = made \o << LegacyCall("analyze", res, TRUE) >>]
        ELSE [l EXCEPT !.pc = "done", !.raised = TRUE, !.raw = reply.kind,
                       !.calls = made \o << LegacyCall("analyze", res, FALSE) >>]

\* An exception leaves ai_web_scraper after the calls made.
LegacyRaise(l, made) == [l EXCEPT !.pc = "done", !.raised = TRUE, !.calls = made]

\* break, then the return after the loop.
LegacyBreak(l) == [l EXCEPT !.pc = "done", !.returned = Sentinel]

InitLegacy ==
    /\ PlannerIdle
    /\ extraction = NoExtraction
    /\ scraper = NoScraper
    /\ interaction = NoInteraction
    /\ search = NoSearch
    /\ checkbox = NoCheckbox
    /\ selector = NoSelector
    /\ browse = NoBrowse
    /\ legacy \in {[NoLegacy EXCEPT !.pc = "start", !.module = m] : m \in LegacyModules}

\* result = await search_google(...); analysis = await gpt_llm.analyze(result)
LegacyStart ==
    /\ legacy.pc = "start"
    /\ \E search_ok \in BOOLEAN, reply \in AnalyzeReplies :
         LET made == << LegacyCall("search_google", << "prompt" >>, search_ok) >>
         IN  legacy' = IF search_ok
                       THEN Analyze(legacy, made, << "search results" >>, reply)
                       ELSE LegacyRaise(legacy, made)
    /\ UNCHANGED << planner_vars, checkbox, selector, browse, extraction, scraper, interaction, search >>

\* if action == "go_to_url"
LegacyGoToUrl ==
    /\ legacy.pc = "loop"
    /\ legacy.analysis.action = "go_to_url"
    /\ IF ~Truthy(legacy.analysis.url)
       THEN legacy' = LegacyBreak(legacy)
       ELSE /\ Len(legacy.analyses) <= MaxLegacyActions
            /\ \E goto_ok \in BOOLEAN, reply \in AnalyzeReplies :
                 LET url == legacy.analysis.url
                     made == Append(legacy.calls, LegacyCall("go_to_url", << url >>, goto_ok))
                 IN  legacy' = IF goto_ok
                               THEN Analyze(legacy, made, << "Navigated to", url >>, reply)
                               ELSE LegacyRaise(legacy, made)
    /\ UNCHANGED << planner_vars, checkbox, selector, browse, extraction, scraper, interaction, search >>

\* elif action == "wait": the name wait is looked up when the call is made.
LegacyWait ==
    /\ legacy.pc = "loop"
    /\ legacy.analysis.action = "wait"
    /\ IF ~wait_is_defined(legacy.module)
       THEN legacy' = LegacyRaise(legacy, legacy.calls)
       ELSE /\ Len(legacy.analyses) <= MaxLegacyActions
            /\ \E reply \in AnalyzeReplies :
                 LET seconds == legacy_seconds(legacy.analysis)
                     made == Append(legacy.calls, LegacyCall("wait", << seconds >>, TRUE))
                 IN  legacy' = Analyze(legacy, made,
                                       << "Waiting for", seconds, "seconds" >>, reply)
    /\ UNCHANGED << planner_vars, checkbox, selector, browse, extraction, scraper, interaction, search >>

\* elif action == "extract_content"
LegacyExtractContent ==
    /\ legacy.pc = "loop"
    /\ legacy.analysis.action = "extract_content"
    /\ Len(legacy.analyses) <= MaxLegacyActions
    /\ \E content_ok \in BOOLEAN, oracle \in Oracles, reply \in AnalyzeReplies :
         LET out == legacy_extract_content(content_ok, oracle)
             made == Append(legacy.calls,
                            LegacyCall("extract_content", << "prompt" >>, ~out.raised))
             after == [legacy EXCEPT !.extract =
                          [called |-> TRUE, content_ok |-> content_ok, oracle |-> oracle,
                           raised |-> out.raised, text |-> out.text]]
         IN  legacy' = IF out.raised
                       THEN LegacyRaise(after, made)
                       ELSE Analyze(after, made, out.text, reply)
    /\ UNCHANGED << planner_vars, checkbox, selector, browse, extraction, scraper, interaction, search >>

\* elif action == "final"
LegacyFinal ==
    /\ legacy.pc = "loop"
    /\ legacy.analysis.action = "final"
    /\ legacy' = [legacy EXCEPT !.pc = "done",
                                !.returned = legacy_final_output(legacy.analysis)]
    /\ UNCHANGED << planner_vars, checkbox, selector, browse, extraction, scraper, interaction, search >>

\* else: break
LegacyUnknown ==
    /\ legacy.pc = "loop"
    /\ legacy.analysis.action \notin {"go_to_url", "wait", "extract_content", "final"}
    /\ legacy' = LegacyBreak(legacy)
    /\ UNCHANGED << planner_vars, checkbox, selector, browse, extraction, scraper, interaction, search >>

NextLegacy ==
    \/ LegacyStart
    \/ LegacyGoToUrl
    \/ LegacyWait
    \/ LegacyExtractContent
    \/ LegacyFinal
    \/ LegacyUnknown

SpecLegacy == InitLegacy /\ [][NextLegacy]_vars

(***************************************************************************)
(* browse_and_extract (try_cheena.py): the pages it opens and closes       *)
(***************************************************************************)
\* max_steps, the interactions tried on one page (10 in the source).
MAX_BROWSE_STEPS == 2

\* The page of the search; the page of the i-th result is i.
SearchPage == 0

\* What the page does in one turn of the step loop: simplify_page_for_llm returns
\* ("ok") or raises ("raise"), or the page has gone away and the call on it raises
\* ("gone").
StepOutcomes == {"ok", "raise", "gone"}

\* What the oracle does when asked for an action: the call raises, the reply is no
\* JSON, it is JSON without an action field, or it is an object with an action: FINISH
\* (with an answer, an empty one or none), FAIL, an action for execute_action (CLICK),
\* or an action that is no text ("bad").
NoReply == [kind |-> "raise", action |-> NONE, answer |-> NONE]

BrowseReplies ==
    {[NoReply EXCEPT !.kind = k] : k \in {"raise", "not_json", "no_action"}}
    \cup {[kind |-> "object", action |-> "FINISH", answer |-> a] : a \in {"answer", "", NONE}}
    \cup {[kind |-> "object", action |-> a, answer |-> NONE] : a \in {"FAIL", "CLICK", "bad"}}

\* ask_llm_for_action: the oracle call, the decoding and the check for the action
\* field are inside one try whose except branches return a fail action.
ask_llm_for_action(reply) ==
    IF reply.kind = "object"
    THEN [action |-> reply.action, answer |-> reply.answer]
    ELSE [action |-> "fail", answer |-> NONE]

\* action_json.get("action", "").upper()
action_name(action_json) ==
    IF action_json.action = "fail" THEN "FAIL" ELSE action_json.action

\* if final_answer mutated: the results are left after the first one.
stop_trying_always(final_answer) == TRUE

\* if final_answer: break
stop_trying(final_answer) == Truthy(final_answer)

\* The label under which a page that the oracle's reply ended is remembered.
EndedBy(reply) ==
    IF reply.kind # "object" THEN "malformed" ELSE reply.action

\* The except of the page's try mutated: the finally is left out.
on_page_error_skipping_finally == "advance"

\* except Exception: the error is logged, a screenshot tried, and the finally of the
\* same try follows.
on_page_error == "finally"

\* return inside the outer try: the finally closes the context before the caller
\* gets the text.
BrowseReturn(b, text) == [b EXCEPT !.pc = "close_context", !.returned = text]

CouldNotExtract ==
    "Could not extract the required information after trying multiple sources."

\* One result page has been dealt with.
BrowseEnded(b, how) == [b EXCEPT !.pc = on_page_error, !.ended = Append(@, how)]

InitBrowse ==
    /\ PlannerIdle
    /\ extraction = NoExtraction
    /\ scraper = NoScraper
    /\ interaction = NoInteraction
    /\ search = NoSearch
    /\ checkbox = NoCheckbox
    /\ selector = NoSelector
    /\ legacy = NoLegacy
    /\ browse \in {[NoBrowse EXCEPT !.pc = "start", !.env = env] : env \in SearchEnvs}

\* search_google: page = await context.new_page()
BrowseSearchOpen ==
    /\ browse.pc = "start"
    /\ browse' = IF browse.env.new_page_ok
                 THEN [browse EXCEPT !.pc = "search", !.open = @ \cup {SearchPage}]
                 ELSE BrowseReturn(browse, << "An error occurred" >>)
    /\ UNCHANGED << planner_vars, checkbox, selector, legacy, extraction, scraper, interaction, search >>

\* search_google from its try to its return, then if not search_results.
BrowseSearch ==
    /\ browse.pc = "search"
    /\ LET out == try_cheena_search_google(browse.env)
           seen == [browse EXCEPT !.env = NoSearchEnv, !.found = Len(browse.env.found)]
       IN  browse' =
             IF ~browse.env.close_ok
             THEN BrowseReturn(seen, << "An error occurred" >>)
             ELSE LET closed == [seen EXCEPT !.open = @ \ {SearchPage},
                                             !.search_results = out.results]
                  IN  IF out.results = << >>
                      THEN BrowseReturn(closed,
                               << "Could not find relevant information: No search results." >>)
                      ELSE [closed EXCEPT !.pc = "next", !.i = 1]
    /\ UNCHANGED << planner_vars, checkbox, selector, legacy, extraction, scraper, interaction, search >>

\* for i, result in enumerate(search_results): page = await context.new_page()
BrowseOpenResult ==
    /\ browse.pc = "next"
    /\ \E new_page_ok \in BOOLEAN :
         browse' = IF new_page_ok
                   THEN [browse EXCEPT !.pc = "goto", !.open = @ \cup {browse.i},
                                       !.step = 0, !.asked = 0]
                   ELSE BrowseReturn(browse, << "An error occurred" >>)
    /\ UNCHANGED << planner_vars, checkbox, selector, legacy, extraction, scraper, interaction, search >>

\* await page.goto(result['url'], ...)
BrowseGoto ==
    /\ browse.pc = "goto"
    /\ \E goto_ok \in BOOLEAN :
         browse' = IF goto_ok
                   THEN [browse EXCEPT !.pc = "step"]
                   ELSE BrowseEnded(browse, "error")
    /\ UNCHANGED << planner_vars, checkbox, selector, legacy, extraction, scraper, interaction, search >>

\* One turn of for step in range(max_steps): the page is simplified, the oracle asked,
\* and its action carried out unless it is FINISH or FAIL.
BrowseStep ==
    /\ browse.pc = "step"
    /\ browse.step < MAX_BROWSE_STEPS
    /\ \E outcome \in StepOutcomes, reply \in BrowseReplies :
         browse' =
           CASE outcome = "raise" -> BrowseEnded(browse, "error")
             [] outcome = "gone" ->
                    BrowseEnded([browse EXCEPT !.open = @ \ {browse.i}], "error")
             [] OTHER ->
                    LET action_json == ask_llm_for_action(reply)
                        asked == [browse EXCEPT !.asked = @ + 1]
                    IN  CASE action_json.action = "bad" -> BrowseEnded(asked, "error")
                          [] action_name(action_json) = "FINISH" ->
                                 [asked EXCEPT
                                    !.pc = "finally",
                                    !.final_answer = IF action_json.answer = NONE
                                                     THEN "N/A"
                                                     ELSE action_json.answer,
                                    !.ended = Append(@, EndedBy(reply))]
                          [] action_name(action_json) = "FAIL" ->
                                 [asked EXCEPT !.pc = "finally",
                                               !.ended = Append(@, EndedBy(reply))]
                          [] OTHER -> [asked EXCEPT !.step = @ + 1]
    /\ UNCHANGED << planner_vars, checkbox, selector, legacy, extraction, scraper, interaction, search >>

\* else: the loop finished without break (max_steps reached).
BrowseMaxSteps ==
    /\ browse.pc = "step"
    /\ browse.step = MAX_BROWSE_STEPS
    /\ browse' = [browse EXCEPT !.pc = "finally", !.ended = Append(@, "max_steps")]
    /\ UNCHANGED << planner_vars, checkbox, selector, legacy, extraction, scraper, interaction, search >>

\* finally: if 'page' in locals() and not page.is_closed(): await page.close()
BrowseClosePage ==
    /\ browse.pc = "finally"
    /\ IF browse.i \notin browse.open
       THEN browse' = [browse EXCEPT !.pc = "advance"]
       ELSE \E close_ok \in BOOLEAN :
              browse' = IF close_ok
                        THEN [browse EXCEPT !.pc = "advance", !.open = @ \ {browse.i}]
                        ELSE BrowseReturn(browse, << "An error occurred" >>)
    /\ UNCHANGED << planner_vars, checkbox, selector, legacy, extraction, scraper, interaction, search >>

\* if final_answer: break; the next result; the returns after the loop.
BrowseAdvance ==
    /\ browse.pc = "advance"
    /\ browse' =
         IF stop_trying(browse.final_answer) \/ browse.i >= Len(browse.search_results)
         THEN IF Truthy(browse.final_answer)
              THEN BrowseReturn(browse, << "Success: ", browse.final_answer >>)
              ELSE BrowseReturn(browse, << CouldNotExtract >>)
         ELSE [browse EXCEPT !.pc = "next", !.i = @ + 1]
    /\ UNCHANGED << planner_vars, checkbox, selector, legacy, extraction, scraper, interaction, search >>

\* finally: await context.close(); await browser.close()
BrowseCloseContext ==
    /\ browse.pc = "close_context"
    /\ browse' = [browse EXCEPT !.pc = "done", !.open = {}]
    /\ UNCHANGED << planner_vars, checkbox, selector, legacy, extraction, scraper, interaction, search >>

NextBrowse ==
    \/ BrowseSearchOpen
    \/ BrowseSearch
    \/ BrowseOpenResult
    \/ BrowseGoto
    \/ BrowseStep
    \/ BrowseMaxSteps
    \/ BrowseClosePage
    \/ BrowseAdvance
    \/ BrowseCloseContext

SpecBrowse == InitBrowse /\ [][NextBrowse]_vars

\* A call that is awaited returns or raises: the run goes on while a step is left.
FairSpecBrowse == SpecBrowse /\ WF_vars(NextBrowse)

(***************************************************************************)
(* should_toggle_checkbox and interact_with_checkbox_radio                 *)
(* (interactive_actions.py).  A label and a goal are the sets of the words *)
(* they are made of; a term is in a text when it is part of one of its     *)
(* words.                                                                  *)
(***************************************************************************)
\* The most calls of interact_with_checkbox_radio made on one control.
MaxApplications == 2

positive_terms ==
    {"agree", "accept", "yes", "subscribe", "sign up", "enable", "activate", "show",
     "display", "view", "include", "more", "details"}

negative_terms ==
    {"disagree", "decline", "no", "unsubscribe", "opt out", "disable", "deactivate",
     "hide", "remove", "exclude", "less", "don't", "do not"}

marketing_terms ==
    {"newsletter", "email", "updates", "promotions", "marketing", "offers",
     "notifications", "alerts"}

consent_terms == {"terms", "conditions", "privacy", "policy", "agree", "consent", "required"}

\* The words labels are made of, and the words goals are made of.
LabelWords == {"newsletter", "notifications", "agree", "subscribe", "flights"}
PromptWords == {"flights", "newsletter"}

\* term in word, for the words above: the word itself, and "no" in "notifications".
PartOf(term, word) == term = word \/ (term = "no" /\ word = "notifications")

\* term in text
In(term, text) == \E word \in text : PartOf(term, word)

Matches(terms, text) == Cardinality({term \in terms : In(term, text)})

\* The scoring of should_toggle_checkbox, the oracle not being asked.
checkbox_score(info, prompt) ==
    LET keyword_matches == Matches(prompt, info.label)
        marketing_matches == Matches(marketing_terms, info.label)
    IN  keyword_matches * 5
        + Matches(positive_terms, info.label) * 2
        - Matches(negative_terms, info.label) * 3
        + (IF Matches(consent_terms, info.label) > 0 THEN 10 ELSE 0)
        - (IF marketing_matches > 0 /\ Matches(marketing_terms, prompt) = 0
           THEN marketing_matches * 2 ELSE 0)
        + (IF info.type = "radio" /\ keyword_matches > 0 THEN 3 ELSE 0)
        + (IF In("required", info.label) \/ info.name_required THEN 7 ELSE 0)

\* What the oracle answers when a client is configured: "yes", "no", another text, or
\* the call raises; "none" when no client is configured.
ClientReplies == {"yes", "no", "maybe", "raise"}

\* should_toggle_checkbox: the oracle's yes or no when a client is configured and the
\* call returns; otherwise False for an empty label and score > 0 for the others.
should_toggle_checkbox(info, prompt, reply) ==
    IF reply \notin {"none", "raise"}
    THEN reply = "yes"
    ELSE IF info.label = {} THEN FALSE ELSE checkbox_score(info, prompt) > 0

\* The comparison mutated: the control is operated whatever its state.
needs_action_always(should_check, is_checked) == TRUE

\* if should_check != is_checked
needs_action(should_check, is_checked) == should_check # is_checked

\* One call of interact_with_checkbox_radio as it is remembered:
\*   decided        should_toggle_checkbox was reached
\*   should_check   what it decided
\*   before, after  the checked state of the control
\*   touched        check() or uncheck() was called
\*   returned       the value returned
Application(decided, should_check, before, after, touched, returned) ==
    [decided |-> decided, should_check |-> should_check, before |-> before,
     after |-> after, touched |-> touched, returned |-> returned]

InitCheckbox ==
    /\ PlannerIdle
    /\ extraction = NoExtraction
    /\ scraper = NoScraper
    /\ interaction = NoInteraction
    /\ search = NoSearch
    /\ legacy = NoLegacy
    /\ browse = NoBrowse
    /\ selector = NoSelector
    /\ checkbox \in
         {[NoCheckbox EXCEPT !.pc = "ready", !.label = label, !.type = type,
                             !.name_required = name_required, !.user_prompt = prompt,
                             !.client = client, !.checked = checked] :
              label \in SUBSET LabelWords, type \in {"checkbox", "radio"},
              name_required \in BOOLEAN, prompt \in SUBSET PromptWords,
              client \in BOOLEAN, checked \in BOOLEAN}

\* interact_with_checkbox_radio: the element is looked up, the decision taken, the
\* state read, and check() or uncheck() called when the two differ; an exception of
\* any of these gives False, and a check() or uncheck() that raises may or may not
\* have changed the control.
InteractWithCheckboxRadio ==
    /\ checkbox.pc = "ready"
    /\ Len(checkbox.history) < MaxApplications
    /\ \E visible, operated_ok, changed \in BOOLEAN, answer \in ClientReplies :
         LET reply == IF checkbox.client THEN answer ELSE "none"
             should_check == should_toggle_checkbox(checkbox, checkbox.user_prompt, reply)
             is_checked == checkbox.checked
             app ==
               IF ~visible
               THEN Application(FALSE, FALSE, is_checked, is_checked, FALSE, FALSE)
               ELSE IF ~needs_action(should_check, is_checked)
               THEN Application(TRUE, should_check, is_checked, is_checked, FALSE, FALSE)
               ELSE IF operated_ok
               THEN Application(TRUE, should_check, is_checked, should_check, TRUE, TRUE)
               ELSE Application(TRUE, should_check, is_checked,
                                IF changed THEN ~is_checked ELSE is_checked, TRUE, FALSE)
         IN  checkbox' = [checkbox EXCEPT !.checked = app.after,
                                          !.history = Append(@, app)]
    /\ UNCHANGED << planner_vars, selector, legacy, browse, extraction, scraper,
                    interaction, search >>

NextCheckbox == InteractWithCheckboxRadio

SpecCheckbox == InitCheckbox /\ [][NextCheckbox]_vars

(***************************************************************************)
(* ElementSelector.select_best_element (interactive_actions.py).  The      *)
(* chosen element is given by its place in the list, 0 standing for None.  *)
(***************************************************************************)
\* The longest list of elements handed to select_best_element.
MaxListed == 2

navigation_terms == {"next", "continue", "more", "show", "view", "details"}

\* The words element texts are made of, and the words goals are made of.
ElementWords == {"flights", "cheap", "next"}
GoalWords == {"flights", "cheap"}

Elements == [text : SUBSET ElementWords, element_type : {"button", "div"}]

ElementLists == UNION {[1..n -> Elements] : n \in 0..MaxListed}

\* The score of one element, in tenths: 1 for every keyword of the goal in its text,
\* 0.5 for a navigation term, 0.3 for a button or a link.
element_score(element, prompt) ==
    Matches(prompt, element.text) * 10
    + (IF Matches(navigation_terms, element.text) > 0 THEN 5 ELSE 0)
    + (IF element.element_type \in {"button", "link"} THEN 3 ELSE 0)

\* for element in elements_with_info, from the k-th element on: if score > best_score
RECURSIVE BestMatch(_, _, _, _, _)
BestMatch(elements, prompt, k, best_match, best_score) ==
    IF k > Len(elements) THEN [best_match |-> best_match, best_score |-> best_score]
    ELSE LET score == element_score(elements[k], prompt)
         IN  IF score > best_score
             THEN BestMatch(elements, prompt, k + 1, k, score)
             ELSE BestMatch(elements, prompt, k + 1, best_match, best_score)

\* The rule-based selection mutated: the first element is taken.
rule_based_selection_first(elements, prompt) == IF elements = << >> THEN 0 ELSE 1

\* _rule_based_selection
rule_based_selection(elements, prompt) ==
    IF elements = << >> THEN 0
    ELSE LET best == BestMatch(elements, prompt, 1, 0, 0)
             navigation == {k \in DOMAIN elements :
                               Matches(navigation_terms, elements[k].text) > 0}
         IN  IF best.best_match = 0 \/ best.best_score = 0
             THEN IF navigation # {}
                  THEN CHOOSE k \in navigation : \A j \in navigation : k <= j
                  ELSE 1
             ELSE best.best_match

\* select_best_element: client is "none" when no client is configured, "raise" when
\* the oracle call or the decoding of its reply raises, "reply" when the reply names
\* element_id (0 for an id no element has).
select_best_element(elements, prompt, client, element_id) ==
    IF elements = << >> THEN 0
    ELSE IF client \in {"none", "raise"} THEN rule_based_selection(elements, prompt)
    ELSE IF element_id \in DOMAIN elements THEN element_id
    ELSE 1

InitSelector ==
    /\ PlannerIdle
    /\ extraction = NoExtraction
    /\ scraper = NoScraper
    /\ interaction = NoInteraction
    /\ search = NoSearch
    /\ legacy = NoLegacy
    /\ browse = NoBrowse
    /\ checkbox = NoCheckbox
    /\ selector \in
         {[NoSelector EXCEPT !.pc = "call", !.elements = elements, !.user_prompt = prompt,
                             !.client = client, !.element_id = element_id] :
              elements \in ElementLists, prompt \in SUBSET GoalWords,
              client \in {"none", "raise", "reply"}, element_id \in 0..MaxListed}

SelectBestElement ==
    /\ selector.pc = "call"
    /\ selector' = [selector EXCEPT
           !.pc = "done",
           !.chosen = select_best_element(selector.elements, selector.user_prompt,
                                          selector.client, selector.element_id)]
    /\ UNCHANGED << planner_vars, checkbox, legacy, browse, extraction, scraper,
                    interaction, search >>

NextSelector == SelectBestElement

SpecSelector == InitSelector /\ [][NextSelector]_vars

(***************************************************************************)
(* Properties of the planner-guided loop                                   *)
(***************************************************************************)
NoDuplicates(seq) == \A i, j \in DOMAIN seq : i # j => seq[i] # seq[j]

\* The latest iteration dispatched a NAVIGATE.
Navigated(d) == ~DispatchRaises(d) /\ d.data.type = "dict" /\ Action(d) = "NAVIGATE"

GoToUrlCalls(cs) == SelectSeq(cs, LAMBDA c : c.op = "go_to_url")

\* C1: in the planner-guided loop, whatever the oracle answers and whichever
\* navigations fail, visited_urls holds no URL twice and is never longer than
\* max_visited_urls.
C1_VisitedUrlsDistinctAndCapped ==
    /\ NoDuplicates(visited_urls)
    /\ Len(visited_urls) <= max_visited_urls

\* The cap is reached by a successful navigation.
C1_Witness ==
    /\ pc = "loop"
    /\ Len(visited_urls) = max_visited_urls
    /\ Navigated(decision)
    /\ Len(GoToUrlCalls(calls)) = 1
    /\ calls[1].ok

HasUsableExtraction ==
    \E i \in DOMAIN extracted_content :
        \/ extracted_content[i].content.action = "final"
        \/ Truthy(extracted_content[i].content.output)

\* C2: a FINISH of the oracle ends the loop with a final answer only if the context
\* holds an extraction record whose action is final or whose output is not empty.
C2_FinishOnlyWithExtraction ==
    (/\ pc = "returned"
     /\ ~DispatchRaises(decision)
     /\ ~decision.fallback
     /\ Action(decision) = "FINISH")
        => HasUsableExtraction

\* C3: the scraper ends by returning a string, never by an exception that reaches
\* the caller.
C3_NoExceptionReachesCaller == pc # "raised"

\* C4: mcp_guided_scraping terminates for every behaviour of the oracle.
C4_Terminates == <>(pc \in {"returned", "raised"})

NoUsableUrl(d) == ~Truthy(d.data.url) \/ IsPlaceholder(d.data.url)

\* The first stored result that is not visited, or the first stored result.
FirstUnvisitedStored ==
    LET urls == [i \in DOMAIN StoredResults |-> StoredResults[i].url]
        unvisited == SelectSeq(urls, LAMBDA u : u \notin RANGE(visited_urls))
    IN  IF Len(unvisited) > 0 THEN unvisited[1] ELSE urls[1]

\* C6: a NAVIGATE without a usable URL, with search results stored, navigates to the
\* first stored result that is not visited, or to the first stored result when all
\* are visited.
C6_FallbackNavigatesFirstUnvisited ==
    [][(/\ pc = "plan"
        /\ Navigated(decision')
        /\ NoUsableUrl(decision')
        /\ Len(StoredResults) > 0)
           => (/\ pc' = "loop"
               /\ Len(GoToUrlCalls(calls')) = 1
               /\ calls'[1].op = "go_to_url"
               /\ calls'[1].arg = FirstUnvisitedStored)]_vars

\* No stored result is left to visit: nothing is stored, or all of it is visited.
NoUnvisitedResult ==
    \A i \in DOMAIN StoredResults :
        /\ ~StoredResults[i].nested
        /\ StoredResults[i].url \in RANGE(visited_urls)

\* The iteration asked for the next results page first and set the state after it.
NextPageRequestedFirst(cs, st) ==
    /\ Len(cs) = 1
    /\ cs[1].op = "search_next_page"
    /\ cs[1].ok =>
          st = IF Len(cs[1].info) > 0 THEN "SEARCH_RESULTS_AVAILABLE" ELSE "NO_MORE_RESULTS"

\* C7 as claimed: a NAVIGATE without a URL, with no unvisited result left (nothing
\* stored, or everything stored visited), asks for the next results page first.
C7_NextPageWhenNoUnvisited ==
    [][(/\ pc = "plan"
        /\ Navigated(decision')
        /\ ~Truthy(decision'.data.url)
        /\ NoUnvisitedResult)
           => NextPageRequestedFirst(calls', state')]_vars

\* C7, amended: a NAVIGATE without a URL, with no search result stored, asks for the
\* next results page before anything else; the state becomes
\* SEARCH_RESULTS_AVAILABLE if that page has results and NO_MORE_RESULTS if not.
C7_NextPageWhenNothingStored ==
    [][(/\ pc = "plan"
        /\ Navigated(decision')
        /\ ~Truthy(decision'.data.url)
        /\ Len(StoredResults) = 0)
           => NextPageRequestedFirst(calls', state')]_vars

\* The next page was asked for and was empty.
C7_Witness ==
    /\ pc = "loop"
    /\ Navigated(decision)
    /\ Len(calls) = 1
    /\ calls[1].op = "search_next_page"
    /\ calls[1].ok
    /\ calls[1].info = << >>
    /\ state = "NO_MORE_RESULTS"

\* C8: a NAVIGATE with a concrete URL makes exactly one go_to_url call, with that
\* URL; when it succeeds the URL is in visited_urls and is the current URL handed
\* to the next planning step.
C8_NavigateToGivenUrl ==
    (pc = "loop" /\ Navigated(decision) /\ ~NoUsableUrl(decision)) =>
        LET gone == GoToUrlCalls(calls)
        IN  /\ Len(gone) = 1
            /\ gone[1].arg = decision.data.url
            /\ gone[1].ok =>
                  /\ decision.data.url \in RANGE(visited_urls)
                  /\ current_url = decision.data.url

\* A concrete URL was navigated while search results were stored.
C8_Witness ==
    /\ pc = "loop"
    /\ Navigated(decision)
    /\ decision.data.url = OracleURL
    /\ Len(StoredResults) > 0
    /\ calls[1].ok
    /\ current_url = OracleURL

(***************************************************************************)
(* Properties of the context and of the dispatch                           *)
(***************************************************************************)
GenerateCalls(cs) == SelectSeq(cs, LAMBDA c : c.op = "generate_final_answer")

\* C11: final_answers never holds more than one element; generate_final_answer is
\* called at most once in a run, and once a final answer is recorded the run has
\* returned and takes no further step.
C11_AtMostOneFinalAnswer ==
    /\ Len(final_answers) <= 1
    /\ Len(GenerateCalls(calls)) <= 1
    /\ Len(GenerateCalls(calls)) = 1 => pc \in {"returned", "raised"}
    /\ final_answers # << >> => (pc = "returned" /\ ~ENABLED Next)

\* A FINISH recorded the answer after a page was extracted.
C11_Witness ==
    /\ pc = "returned"
    /\ Len(final_answers) = 1
    /\ Len(extracted_content) = 1
    /\ Action(decision) = "FINISH"

IsPrefix(s, t) == Len(s) <= Len(t) /\ SubSeq(t, 1, Len(s)) = s

C13_SynthesisGetsEveryRecord ==
    \A i \in DOMAIN calls :
        calls[i].op = "generate_final_answer" =>
            Len(calls[i].info) = Len(extracted_content)

\* A planning reply that wraps a JSON object in a code fence: tagged json or
\* untagged in front, the fence behind.
IsFencedObject(reply) ==
    /\ ~reply.raises
    /\ reply.text.open \in {FenceJson, Fence}
    /\ reply.text.close = Fence
    /\ reply.text.payload.kind = "object"

Unwrapped(reply) == [reply EXCEPT !.text = Unfenced(reply.text)]

\* C17: when the planner decides, a reply that wraps a JSON object in a code fence
\* (tagged json or untagged) is decoded to what the bare object is decoded to, and is
\* never answered by the fallback for a reply that is no JSON.
C17_FencedReplyDecodedAsBare ==
    pc = "plan" =>
        \A reply \in PlanReplies :
            IsFencedObject(reply) =>
                /\ ~decide_next_action(reply).fallback
                /\ decide_next_action(reply) = decide_next_action(Unwrapped(reply))

\* C18: an INTERACT of the oracle runs the interaction explorer on the current page
\* and stores its report in the context.
C18_InteractIsDispatched ==
    [][(/\ pc = "plan"
        /\ ~DispatchRaises(decision')
        /\ Action(decision') = "INTERACT")
           => \E i \in DOMAIN calls' : calls'[i].op = "perform_page_interactions"]_vars

(***************************************************************************)
(* Properties of the stored search results, the fallback and the records   *)
(***************************************************************************)
\* C25: context["search_results"] is always a flat list of {title, url} records,
\* also after a next page of results was folded in by update_context.
C25_SearchResultsFlat == ~HasNested(StoredResults)

\* C26: a planning reply that is no JSON is answered, in this order of priority, by
\* EXTRACT if a current URL is set, by NAVIGATE without URL if search results are
\* stored, by FINISH if a URL was visited and an extraction recorded, and by SEARCH
\* with the user goal as query otherwise.
C26_FallbackPriority ==
    [][(pc = "plan" /\ decision'.fallback) =>
          decision'.data =
             CASE Truthy(current_url) ->
                    [type |-> "dict", action |-> "EXTRACT", url |-> NONE, query |-> NONE]
               [] Len(StoredResults) > 0 ->
                    [type |-> "dict", action |-> "NAVIGATE", url |-> NONE, query |-> NONE]
               [] Len(visited_urls) > 0 /\ Len(extracted_content) > 0 ->
                    [type |-> "dict", action |-> "FINISH", url |-> NONE, query |-> NONE]
               [] OTHER ->
                    [type |-> "dict", action |-> "SEARCH", url |-> NONE,
                     query |-> user_prompt]]_vars

\* A reply that is no JSON was answered by NAVIGATE although a URL was visited and
\* an extraction recorded: the stored results came before the FINISH.
C26_Witness ==
    /\ pc = "loop"
    /\ decision.fallback
    /\ decision.data.action = "NAVIGATE"
    /\ Len(visited_urls) > 0
    /\ Len(extracted_content) > 0

\* C27: when go_to_url fails in a NAVIGATE, visited_urls and extracted_content stay
\* as they were, the current URL is unset, the state is NAVIGATION_ERROR and neither
\* the page interactions nor the extraction are tried in that iteration.
C27_NavigationErrorFrame ==
    [][(/\ pc = "plan"
        /\ calls' # << >>
        /\ calls'[1].op = "go_to_url"
        /\ ~calls'[1].ok)
           => (/\ visited_urls' = visited_urls
               /\ extracted_content' = extracted_content
               /\ current_url' = NONE
               /\ state' = "NAVIGATION_ERROR"
               /\ Len(calls') = 1
               /\ pc' = "loop")]_vars

\* A navigation failed while a page was current and its record stored.
C27_Witness ==
    /\ pc = "loop"
    /\ state = "NAVIGATION_ERROR"
    /\ current_url = NONE
    /\ Len(visited_urls) = 1
    /\ Len(extracted_content) = 1
    /\ Len(calls) = 1
    /\ ~calls[1].ok

\* The URLs of the stored results that are not visited, in their order.
UnvisitedStored(visited) ==
    SelectSeq([i \in DOMAIN StoredResults |-> StoredResults[i].url],
              LAMBDA u : u \notin RANGE(visited))

\* C28: when the navigation to a result chosen by the NAVIGATE fallback fails while
\* another stored result is neither visited nor tried, the fallback does not choose
\* the failed URL again at the next NAVIGATE.
C28_FallbackSkipsFailedUrl ==
    [][(/\ pc = "plan"
        /\ Navigated(decision')
        /\ NoUsableUrl(decision')
        /\ calls' # << >>
        /\ calls'[1].op = "go_to_url"
        /\ ~calls'[1].ok
        /\ \E u \in RANGE(UnvisitedStored(visited_urls)) : u # calls'[1].arg)
           => (url_to_navigate(NONE))' # calls'[1].arg]_vars

\* C29: every record of extracted_content carries a URL that is in visited_urls, and
\* so does the current URL that an EXTRACT would record under.
C29_RecordsOnlyForVisitedUrls ==
    /\ \A i \in DOMAIN extracted_content : extracted_content[i].url \in RANGE(visited_urls)
    /\ Truthy(current_url) => current_url \in RANGE(visited_urls)

\* An EXTRACT recorded the page that an earlier NAVIGATE had reached.
C29_Witness ==
    /\ pc = "loop"
    /\ Action(decision) = "EXTRACT"
    /\ Len(calls) = 2
    /\ calls[2].ok
    /\ Len(extracted_content) = 1
    /\ extracted_content[1].url = current_url

LastRecord == extracted_content[Len(extracted_content)]

C39_PlaceholderNeverNavigated ==
    [][(/\ pc = "plan"
        /\ Navigated(decision')
        /\ IsPlaceholder(decision'.data.url))
           => \A i \in DOMAIN calls' :
                 calls'[i].op = "go_to_url" =>
                    /\ calls'[i].arg # decision'.data.url
                    /\ \E k \in DOMAIN StoredResults : StoredResults[k].url = calls'[i].arg]_vars

\* The URLs of stored results.
StoredUrls(items) == {items[i].url : i \in DOMAIN items}

\* C31: a SEARCH action that is dispatched keeps the search results stored before it
\* as a prefix, in their order, of those stored after it, and every result it appends
\* has a URL that was not stored before.
C31_SearchKeepsStoredResults ==
    [][(/\ pc = "plan"
        /\ ~DispatchRaises(decision')
        /\ Action(decision') = "SEARCH")
           => /\ IsPrefix(StoredResults, StoredResults')
              /\ \A i \in DOMAIN StoredResults' :
                     i > Len(StoredResults) =>
                        StoredResults'[i].url \notin StoredUrls(StoredResults)]_vars

\* A second SEARCH found a page that overlaps the stored one, and only its new result
\* was appended.
C31_Witness ==
    /\ pc = "loop"
    /\ Action(decision) = "SEARCH"
    /\ Len(search_queries) = 2
    /\ StoredResults = FlatPage(<< "r1", "r2" >>)

(***************************************************************************)
(* Properties of the page extraction                                       *)
(***************************************************************************)
PageUnreadable(page) ==
    \/ ~page.title_ok
    \/ page.is_pdf /\ ~page.fetch_ok
    \/ ~page.is_pdf /\ ~page.content_ok

\* C9: every value returned by extract_content or extract_with_function_call is a
\* record with the five fields action, summary, key_points, context and output,
\* key_points a list and action final or next_url.
C9_ExtractionRecordComplete ==
    (extraction.pc \in {"extract_content", "extract_with_function_call"}
     /\ ~extraction.outcome.raised) =>
        LET v == extraction.outcome.value
        IN  /\ v.type = "dict"
            /\ v.action \in {"final", "next_url"}
            /\ v.summary # NONE
            /\ v.key_points.type = "list"
            /\ v.context # NONE
            /\ v.output # NONE

\* C10: when the oracle call fails, its reply cannot be parsed or the page cannot
\* be read, extract_content returns the record with action next_url and the other
\* four fields empty, and raises nothing.
C10_FailureGivesEmptyDefault ==
    (/\ extraction.pc = "extract_content"
     /\ \/ extraction.response.shape = "raise"
        \/ extraction.response.text.payload.kind = "malformed"
        \/ PageUnreadable(extraction.page))
        => /\ ~extraction.outcome.raised
           /\ extraction.outcome.value.action = "next_url"
           /\ extraction.outcome.value.summary = ""
           /\ extraction.outcome.value.key_points = KPList(0)
           /\ extraction.outcome.value.context = ""
           /\ extraction.outcome.value.output = ""

(***************************************************************************)
(* Properties of ai_web_scraper without a planner                          *)
(***************************************************************************)
\* C14: in the walk without a planner, a failing navigation to a search result does
\* not end the run: go_back is tried (whether or not it fails), no extraction is
\* tried for that URL, the index advances by exactly one over the same results, and
\* the loop goes on.
C14_NavigationFailureSkipsResult ==
    [][(/\ scraper.pc = "loop"
        /\ scraper'.calls # << >>
        /\ scraper'.calls[1].op = "go_to_url"
        /\ ~scraper'.calls[1].ok)
           => (/\ scraper'.pc = "loop"
               /\ Len(scraper'.calls) = 2
               /\ scraper'.calls[2].op = "go_back"
               /\ scraper'.current_index = scraper.current_index + 1
               /\ scraper'.search_results = scraper.search_results
               /\ scraper'.result = NONE)]_vars

\* A navigation failed, go_back failed too, and the walk stands at the next result.
C14_Witness ==
    /\ scraper.pc = "loop"
    /\ Len(scraper.calls) = 2
    /\ scraper.calls[1].op = "go_to_url"
    /\ ~scraper.calls[1].ok
    /\ ~scraper.calls[2].ok
    /\ scraper.current_index = 1
    /\ Len(scraper.search_results) = 2

\* The walk is at its end: the results in hand are used up.
Exhausted == scraper.current_index >= Len(scraper.search_results)

FinalSeen == {i \in DOMAIN scraper.seen : scraper.seen[i].action = "final"}

ScraperVisited == SelectSeq(scraper.seen, LAMBDA e : e.action # "navigation_error")

\* C24: the walk without a planner navigates to no more URLs than a fixed cap, the
\* cap on visited URLs that the planner-guided loop has, however many pages of
\* results search_next_page supplies.
C24_ScraperVisitCap == Len(ScraperVisited) <= max_visited_urls

(***************************************************************************)
(* Properties of perform_page_interactions                                 *)
(***************************************************************************)
\* C15: once the elapsed time is over max_time_seconds, no element is filled,
\* clicked, selected or toggled any more, and the report that is returned has
\* timeout_reached true and holds every action logged so far.
C15_TimeoutStopsInteraction ==
    /\ ~interaction.late
    /\ (interaction.pc = "returned" /\ is_timeout(interaction.elapsed_time)) =>
          /\ interaction.report.timeout_reached = "true"
          /\ IsPrefix(interaction.actions_performed, interaction.report.actions_performed)

\* C16: a form is submitted only on a page where the search form was recognised,
\* and then only that search form.
C16_SubmitsOnlySearchForm ==
    interaction.submitted # {} =>
        /\ interaction.page.search_form # "none"
        /\ interaction.submitted = {"search_form"}

(***************************************************************************)
(* Properties of search_google                                             *)
(***************************************************************************)
\* The results page fails to load or cannot be scraped.
SearchFails(env) == ~env.goto_ok \/ ~env.load_ok \/ ~env.evaluate_ok

\* C19: search_google raises nothing, and gives the empty list when the results
\* page fails to load or cannot be scraped.
C19_SearchFailureGivesEmptyList ==
    search.pc \in {"search_google", "try_cheena_search_google"} =>
        /\ ~search.raised
        /\ SearchFails(search.env) => search.results = << >>

(***************************************************************************)
(* Properties of the ai_web_scraper and extract_content of src/services    *)
(* and test.py                                                             *)
(***************************************************************************)
\* Every call the run made came back.
AllCallsOk == \A k \in DOMAIN legacy.calls : legacy.calls[k].ok

\* The calls a run makes for the analyses it received, by name: one search and one
\* analysis, then for every analysis but the last its action and one analysis.
RECURSIVE ActionNames(_)
ActionNames(as) ==
    IF Len(as) <= 1 THEN << >>
    ELSE << as[1].action, "analyze" >> \o ActionNames(Tail(as))

CallNames == [k \in DOMAIN legacy.calls |-> legacy.calls[k].name]

\* What the call returned, as far as the call tells.
ResultHead(call) ==
    CASE call.name = "search_google" -> "search results"
      [] call.name = "go_to_url" -> "Navigated to"
      [] call.name = "wait" -> "Waiting for"
      [] call.name = "extract_content" -> Marker
      [] OTHER -> NONE

\* C21: a run of the legacy ai_web_scraper whose calls all came back has made one
\* search and one analysis, then for every analysis before the last has executed the
\* action it names (go_to_url, wait or extract_content) once, in order, and analysed
\* that action's result; it has returned the output of the last analysis when that
\* one is 'final' and carries an output, and the sentinel when it names an unknown
\* action or a go_to_url without URL.
C21_LegacyRun ==
    (legacy.pc = "done" /\ AllCallsOk) =>
        /\ ~legacy.raised
        /\ legacy.analyses # << >>
        /\ CallNames = << "search_google", "analyze" >> \o ActionNames(legacy.analyses)
        /\ \A k \in DOMAIN legacy.calls :
               (legacy.calls[k].name = "analyze") =>
                   /\ k > 1
                   /\ legacy.calls[k].arg[1] = ResultHead(legacy.calls[k - 1])
        /\ \A k \in 1..(Len(legacy.analyses) - 1) :
               legacy.analyses[k].action \in {"go_to_url", "wait", "extract_content"}
        /\ LET last == legacy.analyses[Len(legacy.analyses)]
           IN  IF last.action = "final"
               THEN last.output # NONE => legacy.returned = last.output
               ELSE /\ legacy.returned = Sentinel
                    /\ \/ last.action \notin {"go_to_url", "wait", "extract_content"}
                       \/ last.action = "go_to_url" /\ ~Truthy(last.url)

C23_OnePageOpen ==
    /\ Cardinality(browse.open) <= 1
    /\ browse.pc = "next" => browse.open = {}
    /\ browse.pc = "goto" => browse.open = {browse.i}
    /\ browse.pc = "done" => browse.open = {}

\* The first result page ended on an error and was closed, the second has been opened
\* by itself and ended on max_steps, and the function has returned.
C23_Witness ==
    /\ browse.pc = "done"
    /\ browse.ended = << "error", "max_steps" >>
    /\ browse.i = 2
    /\ browse.open = {}

\* C32: browse_and_extract terminates whatever the oracle replies, having opened at
\* most MAX_SEARCH_RESULTS result pages and asked the oracle at most max_steps times on
\* each of them.
C32_BrowseTerminates ==
    /\ [](browse.i <= MAX_SEARCH_RESULTS /\ browse.asked <= MAX_BROWSE_STEPS)
    /\ <>(browse.pc = "done")

\* The search found more results than are tried; the last result tried is the
\* MAX_SEARCH_RESULTS-th, the oracle was asked max_steps times on it, and the function
\* has returned.
C32_Witness ==
    /\ browse.pc = "done"
    /\ browse.found > MAX_SEARCH_RESULTS
    /\ Len(browse.search_results) = MAX_SEARCH_RESULTS
    /\ browse.i = MAX_SEARCH_RESULTS
    /\ browse.asked = MAX_BROWSE_STEPS
    /\ browse.ended[Len(browse.ended)] = "max_steps"

\* The latest result page was ended by the oracle's FINISH.
FinishedPage ==
    /\ browse.ended # << >>
    /\ browse.ended[Len(browse.ended)] = "FINISH"

\* C33: when the oracle answers FINISH with answer a on a result page, no further
\* result page is opened and the function returns 'Success: ' followed by a, whatever
\* a is, the empty answer included.
C33_FinishReturnsAnswer ==
    [][(browse.pc = "advance" /\ FinishedPage)
          => /\ browse'.pc = "close_context"
             /\ browse'.returned = << "Success: ", browse.final_answer >>]_vars

\* C34: a reply of the oracle that is no JSON or has no action field, a failing oracle
\* call, or a FAIL action ends the step loop of the current result page only: the page
\* is closed next, and once it is closed the next search result, if there is one, is
\* opened, else the function returns its text; nothing is raised.
C34_FailAbandonsOnlyThePage ==
    [][/\ (/\ browse.pc = "step"
           /\ Len(browse'.ended) > Len(browse.ended)
           /\ browse'.ended[Len(browse'.ended)] \in {"FAIL", "malformed"})
              => browse'.pc = "finally"
       /\ (/\ browse.pc = "advance"
           /\ browse.ended[Len(browse.ended)] \in {"FAIL", "malformed"})
              => /\ browse.open = {}
                 /\ IF browse.i < Len(browse.search_results)
                    THEN browse'.pc = "next" /\ browse'.i = browse.i + 1
                    ELSE /\ browse'.pc = "close_context"
                         /\ browse'.returned = << CouldNotExtract >>]_vars

\* A reply that gave no action ended the first result page, the page was closed, and
\* the second result page is open.
C34_Witness ==
    /\ browse.ended = << "malformed" >>
    /\ browse.i = 2
    /\ browse.pc = "goto"
    /\ browse.open = {2}

(***************************************************************************)
(* Properties of the report of perform_page_interactions                   *)
(***************************************************************************)
\* C35: the elements_found counts of every report perform_page_interactions returns,
\* the reports returned on a timeout included, are the numbers of clickable, input,
\* dropdown and checkbox/radio elements discovered on the page.
C35_ReportCountsDiscovered ==
    interaction.pc = "returned" =>
        interaction.report.elements_found = Discovered(interaction.page)

(***************************************************************************)
(* Properties of the checkbox decision and of the toggling                 *)
(***************************************************************************)
\* C36: interact_with_checkbox_radio changes a control only when its checked state
\* differs from the decision: a call that returned True left the control in the
\* decided state, a call that found the two in agreement called neither check nor
\* uncheck and returned False, and a call with the same decision as a call before it
\* that returned True changes nothing.
C36_ToggleOnlyWhenDifferent ==
    \A k \in DOMAIN checkbox.history :
        LET app == checkbox.history[k]
        IN  /\ app.returned => app.decided /\ app.after = app.should_check
            /\ app.after # app.before => app.decided /\ app.before # app.should_check
            /\ (app.decided /\ app.before = app.should_check) =>
                   ~app.touched /\ ~app.returned /\ app.after = app.before
            /\ (/\ k > 1
                /\ checkbox.history[k - 1].returned
                /\ app.decided
                /\ app.should_check = checkbox.history[k - 1].should_check) =>
                   ~app.touched /\ ~app.returned /\ app.after = app.before

\* A first call checked the box and returned True, a second call with the same
\* decision left it alone and returned False.
C36_Witness ==
    /\ Len(checkbox.history) = 2
    /\ checkbox.history[1] = Application(TRUE, TRUE, FALSE, TRUE, TRUE, TRUE)
    /\ checkbox.history[2] = Application(TRUE, TRUE, TRUE, TRUE, FALSE, FALSE)

\* C37: without oracle client, a checkbox whose label contains a marketing term is
\* decided unchecked unless the goal mentions a marketing term, and a checkbox with an
\* empty label is decided unchecked.
C37_MarketingUnchecked ==
    \A k \in DOMAIN checkbox.history :
        (~checkbox.client /\ checkbox.history[k].decided) =>
            /\ (/\ Matches(marketing_terms, checkbox.label) > 0
                /\ Matches(marketing_terms, checkbox.user_prompt) = 0)
                   => ~checkbox.history[k].should_check
            /\ checkbox.label = {} => ~checkbox.history[k].should_check

(***************************************************************************)
(* Properties of select_best_element                                       *)
(***************************************************************************)
\* C38: select_best_element returns None only for an empty list; without client, or
\* when the oracle call fails, it returns an element of the list whose score is the
\* greatest, the earliest of those with that score.
C38_RuleBasedChoiceIsBest ==
    selector.pc = "done" =>
        /\ selector.chosen = 0 <=> selector.elements = << >>
        /\ (selector.elements # << >> /\ selector.client \in {"none", "raise"}) =>
               /\ selector.chosen \in DOMAIN selector.elements
               /\ \A j \in DOMAIN selector.elements :
                      LET best == element_score(selector.elements[selector.chosen],
                                                selector.user_prompt)
                          other == element_score(selector.elements[j], selector.user_prompt)
                      IN  /\ other <= best
                          /\ j < selector.chosen => other < best

\* The oracle call failed and the second of two elements, the only one that names a
\* word of the goal, was chosen.
C38_Witness ==
    /\ selector.pc = "done"
    /\ selector.client = "raise"
    /\ Len(selector.elements) = 2
    /\ selector.chosen = 2
    /\ Matches(selector.user_prompt, selector.elements[1].text) = 0
    /\ Matches(selector.user_prompt, selector.elements[2].text) = 1

(***************************************************************************)
(* Properties of analyze in the ai_web_scraper of src/services and test.py *)
(***************************************************************************)
\* C40: a planning reply that is no valid JSON is turned by analyze into the action
\* 'final' with the parse-error text as output, and the legacy ai_web_scraper then
\* returns that text at once, making no further call and raising nothing.
C40_ParseErrorEndsTheRun ==
    [][/\ (Len(legacy'.calls) > Len(legacy.calls) /\ legacy'.raw = "not_json")
              => /\ legacy'.pc = "loop"
                 /\ ~legacy'.raised
                 /\ legacy'.analysis = [NoAnalysis EXCEPT !.action = "final",
                                                          !.output = ParseError]
       /\ (legacy.pc = "loop" /\ legacy.raw = "not_json")
              => /\ legacy'.pc = "done"
                 /\ ~legacy'.raised
                 /\ legacy'.returned = ParseError
                 /\ legacy'.calls = legacy.calls]_vars

\* After one navigation the reply was no JSON and the run has returned the parse-error
\* text.
C40_Witness ==
    /\ legacy.pc = "done"
    /\ legacy.raw = "not_json"
    /\ Len(legacy.analyses) = 2
    /\ legacy.analyses[1].action = "go_to_url"
    /\ legacy.returned = ParseError
    /\ ~legacy.raised

=============================================================================
